---- MODULE Spec2Model ----
(***************************************************************************)
(* A model of the synchronisation core of vlc-bittorrent-crossplatform:    *)
(*   - Session (src/src/session.cpp): the alert bus and its listeners;     *)
(*   - the promise-as-listener classes and the interrupt guard             *)
(*     (src/src/download.cpp);                                             *)
(*   - Download: get_download / constructor / destructor, read,            *)
(*     set_piece_priority, download_metadata (src/src/download.cpp).       *)
(*                                                                         *)
(* SpecLife explores the per-key singleton life cycle (get_download,       *)
(* constructor, destructor).  Spec explores one thread's read on a live   *)
(* Download.  SpecSeek explores two threads calling set_piece_priority     *)
(* on the same Download.  SpecStatus explores the alert thread with a     *)
(* metadata wait and the status listener.  SpecClose explores the          *)
(* destructor under fairness.  SpecMeta explores the static                *)
(* get_metadata(url, ...) and its cache file.                              *)
(***************************************************************************)
EXTENDS Integers, Sequences, FiniteSets, TLC

----------------------------------------------------------------------------
(* Program constants *)

PRIO_HIGHEST == 7
PRIO_HIGHER == 6
PRIO_HIGH == 5
\* libtorrent's default piece priority (the NORMAL tier)
PRIO_NORMAL == 4
PIECE_READ_TIMEOUT == 60
REMOVE_TIMEOUT == 5
kB == 1024
MB == 1024 * kB
INT_MAX == 2147483647

----------------------------------------------------------------------------
(* Bounds of the model *)

\* Download instances ever constructed (SpecLife)
MaxInst == 2
\* alerts the engine queues before the bus drains them
MaxAlerts == 2
\* clock steps in which a timed wait reaches its ceiling
Granularity == 2
\* operations (read / set_piece_priority / get_metadata) per thread
MaxOps == 1
\* piece length of the small torrent
SmallPieceLen == 4
\* the engine completes pieces 0 .. MaxFinished - 1 during a run
MaxFinished == 2
\* alerts the engine queues for a Download in use before the bus pops them
MaxQueued == 1
\* failure alerts the engine emits during a run
MaxErrors == 1
\* trackers embedded in a magnet link
MaxEmbedded == 2
\* callbacks made on one data stream
MaxDataCalls == 2
\* reads one DataRead retries after an interrupt
MaxRetries == 2

Threads == {"t1", "t2", "t3"}
Keys == {"k1", "k2"}
NoThread == "none"
Ids == 1..MaxInst

----------------------------------------------------------------------------
(* Arithmetic helpers: C++ integer semantics *)

Min(a, b) == IF a < b THEN a ELSE b
Max(a, b) == IF a > b THEN a ELSE b
Abs(a) == IF a < 0 THEN -a ELSE a
\* C++ '/' and '%' truncate toward zero
TruncDiv(a, b) == IF a >= 0 THEN a \div b ELSE -((-a) \div b)
TruncRem(a, b) == a - b * TruncDiv(a, b)

----------------------------------------------------------------------------
VARIABLES
    \* ---- Session (alert bus) ----
    listeners,   \* Session::m_listeners, front first: the threads whose promise
                 \* is registered, and the status listener
    alerts,      \* the engine's alert queue
    batch,       \* alerts popped by the bus thread, being dispatched
    busPc,       \* "wait" | "dispatch" (m_listeners_mtx held while dispatching)
                 \* | "timeout" (wait_for_alert returned nullptr)
                 \* | "dead" (an exception left session_thread)
                 \* | "exited" (session_thread returned)
    posted,      \* engine: snapshot requests (post_torrent_updates,
                 \* post_dht_stats) not yet answered
    seen,        \* status listener: the alert its handle_alert was last called with
    sess,        \* Session: m_quit, where ~Session stands, and the
                 \* wait_for_alert calls that returned since m_quit was set
    \* ---- per thread: the PendingRequest of its current wait ----
    promise,     \* the promise object (kind, key, piece, state)
    waited,      \* seconds the current timed wait has lasted
    hook,        \* vlc_interrupt callback registered by a vlc_interrupt_guard
    intr,        \* the thread's VLC interrupt context is in state "interrupted"
    pc,          \* position of the thread in its current call
    \* ---- get_download / Download life cycle ----
    mtx,         \* get_download's static mutex: owner thread or NoThread
    dls,         \* static map key -> weak_ptr<Download> (instance id, 0: empty)
    dls_mtx,     \* static map key -> mutex: id of the instance whose m_lock holds it, 0: free
    dl,          \* instance id -> [state, key, keep, refs]
    cur,         \* instance the thread is constructing or destroying
    holds,       \* instance the thread holds a shared_ptr to (0: none)
    rmPending,   \* engine: remove_torrent requests not yet confirmed, per key
    cache,       \* the file cache_path/<hex of TheKey>.torrent: "absent" |
                 \* "partial" (truncated, not yet written) | "full"
    \* ---- one live Download: read / set_piece_priority ----
    geo,         \* the torrent's file table and piece length (fixed)
    hasMeta,     \* m_th.status().has_metadata
    have,        \* piece -> m_th.have_piece(piece)
    prio,        \* piece -> m_th.piece_priority(piece)
    rdQueue,     \* engine: read_piece requests not yet answered
    errs,        \* engine: failure alerts emitted so far
    op,          \* the thread's current call and its arguments
    todo,        \* pieces the thread's set_piece_priority loops still visit
    result,      \* outcome of the thread's call
    ops,         \* calls the thread has started
    hist,        \* history of the thread's current call
    \* ---- the data stream of one file (data_sys) ----
    stream       \* i_file, i_pos, paused, and where its callback stands

busAux == <<posted, seen, sess>>
busVars == <<listeners, alerts, batch, busPc, busAux>>
waitVars == <<promise, waited, hook, intr>>
lifeVars == <<mtx, dls, dls_mtx, dl, cur, holds, rmPending, cache>>
readVars == <<geo, hasMeta, have, prio, rdQueue, errs, op, todo, result, ops, hist, stream>>
vars == <<busVars, waitVars, pc, lifeVars, readVars>>

----------------------------------------------------------------------------
(* Promises (PendingRequests) and alerts *)

\* state: "pending", "value", or the exception set: "SwarmError", "Canceled".
\* errSeen is history: a torrent_error_alert of the promise's own torrent was
\* handed to its handle_alert.
NoPromise ==
    [kind |-> "none", key |-> "", piece |-> -1, state |-> "none", size |-> 0,
     errSeen |-> FALSE]
NewPromise(kind, key, piece) ==
    [kind |-> kind, key |-> key, piece |-> piece, state |-> "pending", size |-> 0,
     errSeen |-> FALSE]

Alert(type, key, piece, err, size) ==
    [type |-> type, key |-> key, piece |-> piece, err |-> err, size |-> size]

\* std::promise::set_value / set_exception: the first call fixes the shared
\* state; a later one throws promise_already_satisfied, which the caller
\* (the dispatch loop, the interrupt callback) catches and discards.
SetValue(p, size) ==
    IF p.state = "pending" THEN [p EXCEPT !.state = "value", !.size = size] ELSE p
\* variant: a set_exception that replaces the state of a satisfied promise
SetException_overwrites(p, what) == [p EXCEPT !.state = what]

SetException(p, what) ==
    IF p.state = "pending" THEN [p EXCEPT !.state = what] ELSE p

ReadPiecePromise_handle_alert(p, a) ==
    IF a.type = "read_piece" /\ a.key = p.key /\ a.piece = p.piece
    THEN IF a.err THEN SetException(p, "SwarmError") ELSE SetValue(p, a.size)
    ELSE p

DownloadPiecePromise_handle_alert(p, a) ==
    IF a.type = "piece_finished" /\ a.key = p.key /\ a.piece = p.piece
    THEN SetValue(p, 0)
    ELSE p

MetadataDownloadPromise_handle_alert(p, a) ==
    IF a.key # p.key THEN p
    ELSE CASE a.type = "torrent_error" -> SetException(p, "SwarmError")
           [] a.type = "metadata_failed" -> SetException(p, "SwarmError")
           [] a.type = "metadata_received" -> SetValue(p, 0)
           [] OTHER -> p

RemovePromise_handle_alert(p, a) ==
    IF a.type = "torrent_removed" /\ a.key = p.key THEN SetValue(p, 0) ELSE p

\* the virtual call h->handle_alert(alert_item)
HandleAlert(p, a) ==
    LET q == CASE p.kind = "read" -> ReadPiecePromise_handle_alert(p, a)
               [] p.kind = "piece" -> DownloadPiecePromise_handle_alert(p, a)
               [] p.kind = "meta" -> MetadataDownloadPromise_handle_alert(p, a)
               [] p.kind = "remove" -> RemovePromise_handle_alert(p, a)
               [] OTHER -> p
    IN  IF a.type = "torrent_error" /\ a.key = p.key
        THEN [q EXCEPT !.errSeen = TRUE] ELSE q

----------------------------------------------------------------------------
(* The torrent: file table, pieces, and the byte range -> piece mapping *)

\* file sizes in bytes, file index 0 first; pieces are cut from the
\* concatenation of the files
SmallTorrent == [plen |-> SmallPieceLen, files |-> <<6, 5>>]
BigTorrent == [plen |-> 16 * MB, files |-> <<100000000>>]
Torrents == {SmallTorrent, BigTorrent}

\* the info-hash of the one Download of Spec and SpecSeek
TheKey == "k1"

NumFiles(g) == Len(g.files)
FileSize(g, f) == g.files[f + 1]
RECURSIVE FileOffset(_, _)
FileOffset(g, f) == IF f = 0 THEN 0 ELSE FileOffset(g, f - 1) + FileSize(g, f - 1)
TotalSize(g) == FileOffset(g, NumFiles(g))
NumPieces(g) == (TotalSize(g) + g.plen - 1) \div g.plen
Pieces(g) == 0..(NumPieces(g) - 1)
\* torrent_info::piece_size
PieceSize(g, p) ==
    IF p = NumPieces(g) - 1 THEN TotalSize(g) - p * g.plen ELSE g.plen

\* torrent_info::map_file(file, offset, size) -> peer_request
MapFile(g, f, off, size) ==
    LET offset == off + FileOffset(g, f) IN
    IF offset >= TotalSize(g)
    THEN [piece |-> NumPieces(g), start |-> 0, length |-> 0]
    ELSE [piece |-> TruncDiv(offset, g.plen),
          start |-> TruncRem(offset, g.plen),
          length |-> IF offset + size > TotalSize(g)
                     THEN TotalSize(g) - offset ELSE size]

\* read: the peer_request of the call
ReadPart(g, f, off, buflen) ==
    MapFile(g, f, off, Min(INT_MAX, Min(buflen, FileSize(g, f) - off)))

\* set_piece_priority: off and size clamped to the file
ClampOff(g, f, off) == Min(off, FileSize(g, f))
ClampSize(g, f, off, size) ==
    Min(INT_MAX, Min(size, FileSize(g, f) - ClampOff(g, f, off)))

\* set_piece_priority: the pieces its loop
\*   for (; part.length > 0; part.length -= ti->piece_size(part.piece++))
\* visits.  Indices outside the torrent are visited without effect
\* (have_piece, piece_priority reject them) and count piece_length bytes.
RECURSIVE LoopFrom(_, _, _)
LoopFrom(g, p, len) ==
    IF len <= 0 \/ p >= NumPieces(g) THEN <<>>
    ELSE <<p>> \o LoopFrom(g, p + 1, len - PieceSize(g, p))
LoopPieces(g, part) ==
    IF part.piece < 0
    THEN LoopFrom(g, 0, part.length + part.piece * g.plen)
    ELSE LoopFrom(g, part.piece, part.length)

\* set_piece_priority(file, off, size, prio): the visits of one call
SetPrioVisits(g, f, off, size, pr) ==
    LET ps == LoopPieces(g, MapFile(g, f, ClampOff(g, f, off), ClampSize(g, f, off, size)))
    IN  [i \in 1..Len(ps) |-> [piece |-> ps[i], prio |-> pr]]

\* read: the head/tail window and the read-ahead window
P01(g, f) == Max(Min(INT_MAX, FileSize(g, f) \div 1000), 128 * kB)
P5(g, f) == Max(Min(INT_MAX, (5 * FileSize(g, f)) \div 100), 32 * MB)

\* read: the visits of its four set_piece_priority calls, in order
ReadVisits(g, f, off, buflen) ==
    SetPrioVisits(g, f, off, ReadPart(g, f, off, buflen).length, PRIO_HIGHEST)
    \o SetPrioVisits(g, f, 0, P01(g, f), PRIO_HIGHER)
    \o SetPrioVisits(g, f, FileSize(g, f) - P01(g, f), P01(g, f), PRIO_HIGHER)
    \o SetPrioVisits(g, f, off, P5(g, f), PRIO_HIGH)

\* the pieces holding a byte of [off, off + size) of file f
Covering(g, f, off, size) ==
    {p \in Pieces(g) :
        /\ size > 0
        /\ p * g.plen < FileOffset(g, f) + off + size
        /\ FileOffset(g, f) + off < p * g.plen + PieceSize(g, p)}

----------------------------------------------------------------------------
(* Session: listener registry and the alert thread *)

\* variant: register / unregister that do not take m_listeners_mtx
ListenersLockFree_always == TRUE

\* register/unregister take m_listeners_mtx, which the alert thread holds
\* while it dispatches a batch
ListenersLockFree == busPc \in {"wait", "timeout", "exited"}

\* the listener of the host's status interface (VLCStatusUpdater)
StatusListener == "st"
NoAlert == Alert("none", "", -1, FALSE, 0)

Range(q) == {q[i] : i \in 1..Len(q)}

\* variant: a registration that does not reach m_listeners
register_alert_listener_lost(l) == UNCHANGED listeners

\* m_listeners.push_front(al)
register_alert_listener(l) == listeners' = <<l>> \o listeners
\* variant: an AlertSubscriber whose destructor leaves the listener registered
unregister_alert_listener_skipped(l) == UNCHANGED listeners

\* m_listeners.remove(al)
unregister_alert_listener(l) == listeners' = SelectSeq(listeners, LAMBDA x : x # l)

\* variant: a pop_alerts that hands over the first queued alert only
Drained_first(q) == <<Head(q)>>

\* pop_alerts(&alerts): the alerts taken out of the engine's queue
Drained(q) == q

\* post_torrent_updates(); post_dht_stats(): the snapshots asked for
Snapshots == {"state_update", "dht_stats"}

\* Session after its constructor: m_quit = false, ~Session not entered
NewSession == [m_quit |-> FALSE, dtor |-> "none", waits |-> 0]

\* a wait_for_alert call returned; with m_quit set it is counted (2 stands
\* for more than one)
Waited(se) == IF se.m_quit THEN [se EXCEPT !.waits = Min(@ + 1, 2)] ELSE se

\* variant: a loop that does not look at m_quit
LoopTest_always == TRUE

\* session_thread: while (!m_quit)
LoopTest == ~sess.m_quit

\* session_thread: wait_for_alert returned an alert; the snapshots are
\* requested; pop_alerts drains the queue; the lock_guard on
\* m_listeners_mtx is taken
BusPop ==
    /\ busPc = "wait"
    /\ alerts # <<>>
    /\ posted' = posted \cup Snapshots
    /\ batch' = Drained(alerts)
    /\ alerts' = <<>>
    /\ busPc' = "dispatch"
    /\ sess' = Waited(sess)
    /\ UNCHANGED <<readVars, listeners, seen, waitVars, pc, lifeVars>>

\* session_thread: wait_for_alert(seconds(1)) returned nullptr, no alert
\* came within the second
BusTimeout ==
    /\ busPc = "wait"
    /\ alerts = <<>>
    /\ busPc' = "timeout"
    /\ sess' = Waited(sess)
    /\ UNCHANGED <<readVars, listeners, alerts, batch, posted, seen, waitVars, pc, lifeVars>>

\* session_thread: if (a == nullptr) continue
BusContinue ==
    /\ busPc = "timeout"
    /\ busPc' = IF LoopTest THEN "wait" ELSE "exited"
    /\ UNCHANGED <<readVars, listeners, alerts, batch, busAux, waitVars, pc, lifeVars>>

\* handle_alert of listener l throws on alert a: set_value / set_exception on
\* a promise that is already satisfied (std::future_error)
Throws(l, a) ==
    /\ l \in Threads
    /\ promise[l].state # "pending"
    /\ HandleAlert([promise[l] EXCEPT !.state = "pending"], a).state # "pending"

\* variant: a dispatch loop without the try / catch around handle_alert
Caught_not == FALSE

\* session_thread: try { h->handle_alert(alert_item); } catch (...) {}
Caught == TRUE

\* session_thread, inner loop: the listeners handle_alert is called on, in
\* list order; an exception that is not caught ends the loop
RECURSIVE Reached(_, _)
Reached(ls, a) ==
    IF ls = <<>> THEN <<>>
    ELSE IF Throws(Head(ls), a) /\ ~Caught THEN <<Head(ls)>>
    ELSE <<Head(ls)>> \o Reached(Tail(ls), a)

\* session_thread: one alert of the batch goes to the registered listeners
BusDeliver ==
    /\ busPc = "dispatch"
    /\ batch # <<>>
    /\ LET a == Head(batch)
           got == Range(Reached(listeners, a))
           escaped == ~Caught /\ \E l \in got : Throws(l, a)
       IN  /\ promise' = [t \in Threads |->
                            IF t \in got THEN HandleAlert(promise[t], a)
                            ELSE promise[t]]
           /\ seen' = IF StatusListener \in got THEN a ELSE seen
           /\ IF escaped
              THEN busPc' = "dead" /\ UNCHANGED batch
              ELSE batch' = Tail(batch) /\ UNCHANGED busPc
    /\ UNCHANGED <<readVars, listeners, alerts, posted, sess, waited, hook, intr, pc, lifeVars>>

\* session_thread: the batch is done, the lock_guard is released
BusDone ==
    /\ busPc = "dispatch"
    /\ batch = <<>>
    /\ busPc' = IF LoopTest THEN "wait" ELSE "exited"
    /\ UNCHANGED <<readVars, listeners, alerts, batch, busAux, waitVars, pc, lifeVars>>

Bus == BusPop \/ BusDeliver \/ BusDone \/ BusTimeout \/ BusContinue

\* InterfaceOpen: the status listener is registered
StatusOpen ==
    /\ StatusListener \notin Range(listeners)
    /\ ListenersLockFree
    /\ register_alert_listener(StatusListener)
    /\ UNCHANGED <<readVars, alerts, batch, busPc, busAux, waitVars, pc, lifeVars>>

\* InterfaceClose: the status listener is unregistered
StatusClose ==
    /\ StatusListener \in Range(listeners)
    /\ ListenersLockFree
    /\ unregister_alert_listener(StatusListener)
    /\ UNCHANGED <<readVars, alerts, batch, busPc, busAux, waitVars, pc, lifeVars>>

\* the clock of a future::wait_for advances while the promise is unresolved
TickStep(ceiling) == Max(1, ceiling \div Granularity)

----------------------------------------------------------------------------
(* Download::get_download, Download::Download, Download::~Download *)

\* dl[i].state: "unused" (id never used), "ctor" (in the constructor, before
\* add_torrent), "live" (constructed, referenced), "dtor" (in the destructor,
\* m_lock still held), "gone" (destroyed), "failed" (the constructor threw)
\* other: a later get_download that returned this instance passed another
\* flag than m_keep; asked: what ~Download asked the engine for
NewInst ==
    [state |-> "unused", key |-> "", keep |-> FALSE, refs |-> 0,
     other |-> FALSE, asked |-> "none"]
UnusedIds == {i \in Ids : dl[i].state = "unused"}
FreshId == CHOOSE i \in UnusedIds : \A j \in UnusedIds : i <= j

\* dls[ih].lock(): the instance the weak_ptr still refers to, 0 when expired
WeakLock(k) == IF dls[k] # 0 /\ dl[dls[k]].refs > 0 THEN dls[k] ELSE 0

\* variant: get_download that does not record the new instance in dls
StoreWeak_dropped(k, id) == UNCHANGED dls

\* dls[ih] = dl
StoreWeak(k, id) == dls' = [dls EXCEPT ![k] = id]

\* variant: a constructor that does not wait for the per-key mutex
CtorMayLock_nowait(k) == TRUE

\* m_lock(mtx): the constructor blocks until the per-key mutex is free
CtorMayLock(k) == dls_mtx[k] = 0

\* where get_download and the release of a shared_ptr sit in the caller:
\* a host thread calls them on its own (DataOpen, DataClose); the static
\* get_metadata(url, ...) calls get_download on a cache miss and drops the
\* temporary shared_ptr at the end of that statement, before it writes the
\* cache file or on the way out with the exception of the metadata wait
InResolve(t) == op[t].name = "resolve"
BeforeGet(t) == IF InResolve(t) THEN "rs_get" ELSE "idle"
AfterGet(t) == IF InResolve(t) THEN "rs_meta" ELSE "holding"
BeforeRelease(t) == IF InResolve(t) THEN "rs_release" ELSE "holding"
\* variant: a resolver that goes on to write the cache file whatever the
\* metadata wait ended with
AfterRelease_writes(t) == IF InResolve(t) THEN "rs_trunc" ELSE "idle"

AfterRelease(t) ==
    IF InResolve(t)
    THEN IF result[t].kind = "none" THEN "rs_trunc" ELSE "done"
    ELSE "idle"

\* get_download: lock mtx, look the key up; an alive instance is returned
\* (and mtx released), otherwise make_shared enters the constructor with
\* mtx still held
GetDownload(t, k, keep) ==
    /\ pc[t] = BeforeGet(t)
    /\ mtx = NoThread
    /\ IF WeakLock(k) # 0
       THEN /\ holds' = [holds EXCEPT ![t] = WeakLock(k)]
            /\ dl' = [dl EXCEPT ![WeakLock(k)].refs = @ + 1,
                                  ![WeakLock(k)].other = @ \/ keep # dl[WeakLock(k)].keep]
            /\ pc' = [pc EXCEPT ![t] = AfterGet(t)]
            /\ UNCHANGED <<mtx, cur>>
       ELSE /\ UnusedIds # {}
            /\ mtx' = t
            /\ dl' = [dl EXCEPT ![FreshId] =
                        [NewInst EXCEPT !.state = "ctor", !.key = k, !.keep = keep]]
            /\ cur' = [cur EXCEPT ![t] = FreshId]
            /\ pc' = [pc EXCEPT ![t] = "ctor_lock"]
            /\ UNCHANGED holds
    /\ UNCHANGED <<readVars, cache, busVars, waitVars, dls, dls_mtx, rmPending>>

\* variant: a constructor whose exception leaves the per-key mutex locked
CtorThrows_locked(t) ==
    /\ dl' = [dl EXCEPT ![cur[t]] = [NewInst EXCEPT !.state = "failed", !.key = dl[cur[t]].key]]
    /\ pc' = [pc EXCEPT ![t] = IF InResolve(t) THEN "done" ELSE "idle"]
    /\ dls_mtx' = [dls_mtx EXCEPT ![dl[cur[t]].key] = cur[t]]
    /\ UNCHANGED <<dls, holds>>

\* Download::Download: throw std::runtime_error("Failed to add torrent");
\* the members built so far are destroyed (m_lock unlocks the per-key
\* mutex), make_shared frees the object and dls[ih] = dl is not reached;
\* get_metadata(url, ...) does not catch it and ends with the error
CtorThrows(t) ==
    /\ dl' = [dl EXCEPT ![cur[t]] = [NewInst EXCEPT !.state = "failed", !.key = dl[cur[t]].key]]
    /\ pc' = [pc EXCEPT ![t] = IF InResolve(t) THEN "done" ELSE "idle"]
    /\ UNCHANGED <<dls, dls_mtx, holds>>

\* Download::Download: m_lock(mtx) acquires the per-key mutex, then
\* m_session->add_torrent(atp).  A valid handle: the constructor returns,
\* get_download stores the weak_ptr, returns the shared_ptr and releases
\* mtx.  An invalid handle throws, which unwinds m_lock and get_download's
\* lock on mtx.
Construct(t, ok) ==
    /\ pc[t] = "ctor_lock"
    /\ CtorMayLock(dl[cur[t]].key)
    /\ IF ok
       THEN /\ dls_mtx' = [dls_mtx EXCEPT ![dl[cur[t]].key] = cur[t]]
            /\ StoreWeak(dl[cur[t]].key, cur[t])
            /\ dl' = [dl EXCEPT ![cur[t]].state = "live", ![cur[t]].refs = 1]
            /\ holds' = [holds EXCEPT ![t] = cur[t]]
            /\ pc' = [pc EXCEPT ![t] = AfterGet(t)]
       ELSE CtorThrows(t)
    /\ cur' = [cur EXCEPT ![t] = 0]
    /\ mtx' = NoThread
    /\ hasMeta' = IF ok /\ op[t].name = "resolve" THEN FALSE ELSE hasMeta
    /\ result' = IF ~ok /\ InResolve(t)
                 THEN [result EXCEPT ![t] = [kind |-> "Failed to add torrent", n |-> 0]]
                 ELSE result
    /\ UNCHANGED <<geo, stream, have, prio, rdQueue, errs, op, todo, ops, hist>>
    /\ UNCHANGED <<busVars, waitVars, rmPending, cache>>

\* a holder drops its shared_ptr; dropping the last one runs ~Download on
\* the dropping thread
Release(t) ==
    /\ pc[t] = BeforeRelease(t)
    /\ LET id == holds[t] IN
        /\ holds' = [holds EXCEPT ![t] = 0]
        /\ IF dl[id].refs = 1
           THEN /\ dl' = [dl EXCEPT ![id].refs = 0, ![id].state = "dtor"]
                /\ cur' = [cur EXCEPT ![t] = id]
                /\ pc' = [pc EXCEPT ![t] = "dtor_sub"]
           ELSE /\ dl' = [dl EXCEPT ![id].refs = @ - 1]
                /\ pc' = [pc EXCEPT ![t] = AfterRelease(t)]
                /\ UNCHANGED cur
    /\ UNCHANGED <<readVars, cache, busVars, waitVars, mtx, dls, dls_mtx, rmPending>>

\* ~Download: RemovePromise rmprom; AlertSubscriber sub(m_session, &rmprom)
DtorSubscribe(t) ==
    /\ pc[t] = "dtor_sub"
    /\ ListenersLockFree
    /\ promise' = [promise EXCEPT ![t] = NewPromise("remove", dl[cur[t]].key, -1)]
    /\ register_alert_listener(t)
    /\ pc' = [pc EXCEPT ![t] = "dtor_remove"]
    /\ UNCHANGED <<readVars, alerts, batch, busPc, busAux, waited, hook, intr, lifeVars>>

\* variant: a Session that always passes delete_files
RemoveOptions_delete(keep) == "delete_files"

\* Session::remove_torrent(th, keep): keep ? remove_torrent(th)
\*                                         : remove_torrent(th, delete_files)
RemoveOptions(keep) == IF keep THEN "remove" ELSE "delete_files"

\* ~Download: m_session->remove_torrent(m_th, m_keep)
DtorRemove(t) ==
    /\ pc[t] = "dtor_remove"
    /\ rmPending' = [rmPending EXCEPT ![dl[cur[t]].key] = @ + 1]
    /\ dl' = [dl EXCEPT ![cur[t]].asked = RemoveOptions(dl[cur[t]].keep)]
    /\ waited' = [waited EXCEPT ![t] = 0]
    /\ pc' = [pc EXCEPT ![t] = "dtor_wait"]
    /\ UNCHANGED <<readVars, cache, busVars, promise, hook, intr, mtx, dls, dls_mtx, cur, holds>>

\* ~Download: f.wait_for(seconds(5)), time passing
DtorTick(t) ==
    /\ pc[t] = "dtor_wait"
    /\ promise[t].state = "pending"
    /\ waited[t] < REMOVE_TIMEOUT
    /\ waited' = [waited EXCEPT ![t] = Min(REMOVE_TIMEOUT, @ + TickStep(REMOVE_TIMEOUT))]
    /\ UNCHANGED <<readVars, busVars, promise, hook, intr, pc, lifeVars>>

\* variant: a destructor that waits with f.wait(), without a time limit
RemoveWaitOver_unbounded(t) == promise[t].state # "pending"

\* ~Download: f.wait_for(seconds(5)) is over, the future is ready or the
\* five seconds are gone
RemoveWaitOver(t) == promise[t].state # "pending" \/ waited[t] >= REMOVE_TIMEOUT

\* ~Download: wait_for returns, ready or timed out; its status is ignored
DtorWake(t) ==
    /\ pc[t] = "dtor_wait"
    /\ RemoveWaitOver(t)
    /\ pc' = [pc EXCEPT ![t] = "dtor_unsub"]
    /\ UNCHANGED <<readVars, busVars, waitVars, lifeVars>>

\* ~Download: ~AlertSubscriber unregisters, rmprom is destroyed
DtorUnsub(t) ==
    /\ pc[t] = "dtor_unsub"
    /\ ListenersLockFree
    /\ unregister_alert_listener(t)
    /\ promise' = [promise EXCEPT ![t] = NoPromise]
    /\ waited' = [waited EXCEPT ![t] = 0]
    /\ pc' = [pc EXCEPT ![t] = "dtor_unlock"]
    /\ UNCHANGED <<readVars, alerts, batch, busPc, busAux, hook, intr, lifeVars>>

\* ~Download: the members are destroyed, m_lock releases the per-key mutex
DtorUnlock(t) ==
    /\ pc[t] = "dtor_unlock"
    /\ dls_mtx' = [dls_mtx EXCEPT ![dl[cur[t]].key] = 0]
    /\ dl' = [dl EXCEPT ![cur[t]] = [NewInst EXCEPT !.state = "gone", !.key = dl[cur[t]].key]]
    /\ cur' = [cur EXCEPT ![t] = 0]
    /\ pc' = [pc EXCEPT ![t] = AfterRelease(t)]
    /\ UNCHANGED <<readVars, cache, busVars, waitVars, mtx, dls, holds, rmPending>>

\* the engine confirms a removal: torrent_removed_alert
EngineRemoved(k) ==
    /\ rmPending[k] > 0
    /\ Len(alerts) < MaxAlerts
    /\ alerts' = Append(alerts, Alert("torrent_removed", k, -1, FALSE, 0))
    /\ rmPending' = [rmPending EXCEPT ![k] = @ - 1]
    /\ UNCHANGED <<readVars, cache, listeners, batch, busPc, busAux, waitVars, pc, mtx, dls, dls_mtx, dl,
                   cur, holds>>

----------------------------------------------------------------------------
(* Download::read, Download::set_piece_priority, Download::download_metadata *)

NoOp == [name |-> "none", file |-> 0, off |-> 0, len |-> 0, hi |-> 0, prio |-> 0]
ReadOp(f, off, len) ==
    [name |-> "read", file |-> f, off |-> off, len |-> len, hi |-> 0, prio |-> 0]
\* a read whose size_t buflen is hi * 2^32 + lo
WideReadOp(f, off, hi, lo) ==
    [name |-> "read", file |-> f, off |-> off, len |-> lo, hi |-> hi, prio |-> 0]
\* read: std::min((int64_t)INT_MAX, (int64_t)buflen)
ClampedBufLen(o) == IF o.hi > 0 THEN INT_MAX ELSE Min(INT_MAX, o.len)
\* read(part): (int)buflen keeps the low 32 bits of buflen
IntBufLen(o) == o.len
SeekOp(f, off, size, pr) ==
    [name |-> "setprio", file |-> f, off |-> off, len |-> size, hi |-> 0, prio |-> pr]

NoResult == [kind |-> "none", n |-> 0]

\* data_sys after DataOpen: i_file, i_pos = 0, paused = false; fn is the
\* callback the stream's thread is in, size the i_size of a DataRead, tries
\* the reads it retried, calls the callbacks made so far, ret what the last
\* callback returned
NewStream ==
    [i_file |-> 0, i_pos |-> 0, paused |-> FALSE, fn |-> "none", size |-> 0,
     tries |-> 0, calls |-> 0, ret |-> NoResult]
Outcome(kind, n) == [kind |-> kind, n |-> n]

\* history of one call: what it did so far
NoHist ==
    [metaKnown |-> FALSE,     \* has_metadata held when the call started
     subscribed |-> FALSE,    \* it registered an alert listener
     hooked |-> FALSE,        \* it registered an interrupt callback
     wrote |-> FALSE,         \* it set a piece priority
     requested |-> FALSE,     \* it issued read_piece
     ownedAtRaise |-> FALSE,  \* read: its piece was owned when the exact range was raised
     exactAtRaise |-> FALSE,  \* read: its piece had priority 7 when the exact range was raised
     intrAt |-> -1,           \* read: seconds of its piece wait gone when the host
                              \* interrupt hit it, -1 when it did not
     cbGiven |-> FALSE,       \* get_metadata: a progress callback was passed
     cb |-> <<>>,             \* get_metadata: the values the callback was called with
     late |-> FALSE,          \* get_metadata: the call began after another call had
                              \* fetched the descriptor and written the cache file
     saw |-> "",              \* get_metadata: the state of the cache file it met
     embedded |-> <<>>,       \* get_metadata: the trackers of the magnet link
     trackers |-> <<>>,       \* get_metadata: atp.trackers
     hit |-> FALSE,           \* get_metadata: it parsed the cache file
     missed |-> FALSE]        \* get_metadata: it went to get_download

\* the peer_request of thread t's read
PartOf(t) == ReadPart(geo, op[t].file, op[t].off, ClampedBufLen(op[t]))

\* variant: a set_piece_priority that leaves the priority as it is
NewPriority_kept(old, pr) == old

\* the priority a visit of set_piece_priority writes
NewPriority(old, pr) == pr

\* the test of set_piece_priority's loop body
NeedsRaise(p, pr) == ~have[p] /\ prio[p] < pr

\* variant: a read that accepts any offset
OffsetValid_any(off) == TRUE

\* read: if (fileoff < 0) throw
OffsetValid(off) == off >= 0

\* the statements after download_metadata() returned: get_metadata(cb)
\* serializes the descriptor and returns it; read validates its arguments
\* and computes its peer_request; read and set_piece_priority then enter
\* the set_piece_priority loops
AfterMeta(t, o) ==
    IF o.name = "getmeta"
    THEN /\ result' = [result EXCEPT ![t] = Outcome("descriptor", 0)]
         /\ pc' = [pc EXCEPT ![t] = "done"]
         /\ todo' = [todo EXCEPT ![t] = <<>>]
    ELSE IF o.name = "setprio"
    THEN LET vs == SetPrioVisits(geo, o.file, o.off, o.len, o.prio) IN
         /\ todo' = [todo EXCEPT ![t] = vs]
         /\ result' = [result EXCEPT ![t] =
                          IF vs = <<>> THEN Outcome("void", 0) ELSE NoResult]
         /\ pc' = [pc EXCEPT ![t] = IF vs = <<>> THEN "done" ELSE "sp_get"]
    ELSE IF o.file < 0 \/ o.file >= NumFiles(geo)
    THEN /\ result' = [result EXCEPT ![t] = Outcome("NotFound", 0)]
         /\ pc' = [pc EXCEPT ![t] = "done"]
         /\ todo' = [todo EXCEPT ![t] = <<>>]
    ELSE IF ~OffsetValid(o.off)
    THEN /\ result' = [result EXCEPT ![t] = Outcome("InvalidArgument", 0)]
         /\ pc' = [pc EXCEPT ![t] = "done"]
         /\ todo' = [todo EXCEPT ![t] = <<>>]
    ELSE IF o.off >= FileSize(geo, o.file)
            \/ ReadPart(geo, o.file, o.off, ClampedBufLen(o)).length <= 0
    THEN /\ result' = [result EXCEPT ![t] = Outcome("bytes", 0)]
         /\ pc' = [pc EXCEPT ![t] = "done"]
         /\ todo' = [todo EXCEPT ![t] = <<>>]
    ELSE /\ todo' = [todo EXCEPT ![t] = ReadVisits(geo, o.file, o.off, ClampedBufLen(o))]
         /\ result' = [result EXCEPT ![t] = NoResult]
         /\ pc' = [pc EXCEPT ![t] = "sp_get"]

\* variant: a download_metadata that always waits
MetadataKnown_never == FALSE

\* download_metadata: m_th.status().has_metadata
MetadataKnown == hasMeta

\* a call starts: download_metadata() tests has_metadata; with metadata the
\* call goes on at once, without it the metadata wait begins
Start(t, o) ==
    /\ pc[t] \in {"idle", "done"}
    /\ ops[t] < MaxOps
    /\ ops' = [ops EXCEPT ![t] = @ + 1]
    /\ op' = [op EXCEPT ![t] = o]
    /\ hist' = [hist EXCEPT ![t] = [NoHist EXCEPT !.metaKnown = hasMeta]]
    /\ IF MetadataKnown
       THEN AfterMeta(t, o)
       ELSE /\ pc' = [pc EXCEPT ![t] = "meta_sub"]
            /\ result' = [result EXCEPT ![t] = NoResult]
            /\ todo' = [todo EXCEPT ![t] = <<>>]
    /\ UNCHANGED <<busVars, waitVars, lifeVars, geo, stream, hasMeta, have, prio, rdQueue, errs>>

GetMetaOp == [name |-> "getmeta", file |-> 0, off |-> 0, len |-> 0, hi |-> 0, prio |-> 0]

\* Download::get_metadata(cb) on a Download the caller holds: download_metadata(cb)
\* tests has_metadata; cb is the progress callback, given or not
GetMetadata(t, cb) ==
    /\ pc[t] \in {"idle", "done"}
    /\ ops[t] < MaxOps
    /\ ops' = [ops EXCEPT ![t] = @ + 1]
    /\ op' = [op EXCEPT ![t] = GetMetaOp]
    /\ hist' = [hist EXCEPT ![t] = [NoHist EXCEPT !.metaKnown = hasMeta, !.cbGiven = cb]]
    /\ IF MetadataKnown
       THEN AfterMeta(t, GetMetaOp)
       ELSE /\ pc' = [pc EXCEPT ![t] = "meta_sub"]
            /\ result' = [result EXCEPT ![t] = NoResult]
            /\ todo' = [todo EXCEPT ![t] = <<>>]
    /\ UNCHANGED <<busVars, waitVars, lifeVars, geo, stream, hasMeta, have, prio, rdQueue, errs>>

\* download_metadata: MetadataDownloadPromise dlprom; AlertSubscriber sub
MetaSubscribe(t) ==
    /\ pc[t] = "meta_sub"
    /\ ListenersLockFree
    /\ promise' = [promise EXCEPT ![t] = NewPromise("meta", TheKey, -1)]
    /\ register_alert_listener(t)
    /\ hist' = [hist EXCEPT ![t].subscribed = TRUE]
    /\ pc' = [pc EXCEPT ![t] = "meta_hook"]
    /\ UNCHANGED <<alerts, batch, busPc, busAux, waited, hook, intr, lifeVars, geo, stream, hasMeta,
                   have, prio, rdQueue, errs, op, todo, result, ops>>

\* variant: a guard that registers no callback
GuardRegister_unarmed(t) == UNCHANGED <<hook, promise>>

\* vlc_interrupt_guard: vlc_interrupt_register(abort, &pr); an interrupt
\* already pending calls abort at once
GuardRegister(t) ==
    /\ hook' = [hook EXCEPT ![t] = TRUE]
    /\ promise' = [promise EXCEPT ![t] =
                      IF intr[t] THEN SetException(@, "Canceled") ELSE @]

\* ~vlc_interrupt_guard: vlc_interrupt_unregister() drops the callback and
\* clears the interrupted state
GuardUnregister(t) ==
    /\ hook' = [hook EXCEPT ![t] = FALSE]
    /\ intr' = [intr EXCEPT ![t] = FALSE]

\* download_metadata: vlc_interrupt_guard intrguard(dlprom); get_future; cb(0)
MetaHook(t) ==
    /\ pc[t] = "meta_hook"
    /\ GuardRegister(t)
    /\ hist' = [hist EXCEPT ![t].hooked = TRUE,
                             ![t].cb = IF hist[t].cbGiven THEN Append(@, 0) ELSE @]
    /\ pc' = [pc EXCEPT ![t] = "meta_wait"]
    /\ UNCHANGED <<busVars, waited, intr, lifeVars, geo, stream, hasMeta, have, prio,
                   rdQueue, errs, op, todo, result, ops>>

\* variant: a download_metadata that calls cb(100) however the wait ended
Returned_always(p) == TRUE

\* f.get() returns, rather than throws: the statements after it run
Returned(p) == p.state = "value"

\* download_metadata: f.get() returns or throws; cb(100) after a return; the
\* guard is destroyed
MetaWake(t) ==
    /\ pc[t] = "meta_wait"
    /\ promise[t].state # "pending"
    /\ GuardUnregister(t)
    /\ result' = [result EXCEPT ![t] =
                     IF promise[t].state = "value" THEN NoResult
                     ELSE Outcome(promise[t].state, 0)]
    /\ hist' = [hist EXCEPT ![t].cb =
                    IF hist[t].cbGiven /\ Returned(promise[t])
                    THEN Append(@, 100) ELSE @]
    /\ pc' = [pc EXCEPT ![t] = "meta_unsub"]
    /\ UNCHANGED <<busVars, promise, waited, lifeVars, geo, stream, hasMeta, have, prio,
                   rdQueue, errs, op, todo, ops>>

\* download_metadata: ~AlertSubscriber; on success the caller goes on (read,
\* set_piece_priority; get_metadata(cb) serializes the descriptor and returns)
MetaUnsub(t) ==
    /\ pc[t] = "meta_unsub"
    /\ ListenersLockFree
    /\ unregister_alert_listener(t)
    /\ promise' = [promise EXCEPT ![t] = NoPromise]
    /\ IF InResolve(t)
       THEN /\ pc' = [pc EXCEPT ![t] = "rs_release"]
            /\ UNCHANGED <<todo, result>>
       ELSE IF result[t].kind # "none"
       THEN /\ pc' = [pc EXCEPT ![t] = "done"]
            /\ UNCHANGED <<todo, result>>
       ELSE AfterMeta(t, op[t])
    /\ UNCHANGED <<alerts, batch, busPc, busAux, waited, hook, intr, lifeVars, geo, stream, hasMeta,
                   have, prio, rdQueue, errs, op, ops, hist>>

\* where a call goes when its set_piece_priority loops are done
AfterVisits(t, rest) ==
    /\ todo' = [todo EXCEPT ![t] = rest]
    /\ IF rest # <<>>
       THEN /\ pc' = [pc EXCEPT ![t] = "sp_get"]
            /\ UNCHANGED result
       ELSE IF op[t].name = "setprio"
       THEN /\ pc' = [pc EXCEPT ![t] = "done"]
            /\ result' = [result EXCEPT ![t] = Outcome("void", 0)]
       ELSE /\ pc' = [pc EXCEPT ![t] = "rd_have"]
            /\ UNCHANGED result

\* the visit is the one that raises read's own piece to the exact tier
IsExactVisit(t, v) ==
    op[t].name = "read" /\ v.prio = PRIO_HIGHEST /\ v.piece = PartOf(t).piece

\* set_piece_priority loop body: have_piece and piece_priority are read
SpGet(t) ==
    /\ pc[t] = "sp_get"
    /\ LET v == Head(todo[t]) IN
        /\ hist' = [hist EXCEPT
              ![t].ownedAtRaise = @ \/ (IsExactVisit(t, v) /\ have[v.piece]),
              ![t].exactAtRaise = @ \/ (IsExactVisit(t, v) /\ ~have[v.piece]
                                         /\ prio[v.piece] = PRIO_HIGHEST)]
        /\ IF NeedsRaise(v.piece, v.prio)
           THEN /\ pc' = [pc EXCEPT ![t] = "sp_set"]
                /\ UNCHANGED <<todo, result>>
           ELSE AfterVisits(t, Tail(todo[t]))
    /\ UNCHANGED <<busVars, waitVars, lifeVars, geo, stream, hasMeta, have, prio, rdQueue,
                   errs, op, ops>>

\* set_piece_priority loop body: m_th.piece_priority(part.piece, prio)
SpSet(t) ==
    /\ pc[t] = "sp_set"
    /\ LET v == Head(todo[t])
           new == NewPriority(prio[v.piece], v.prio) IN
        /\ prio' = [prio EXCEPT ![v.piece] = new]
        /\ hist' = [hist EXCEPT
              ![t].wrote = TRUE,
              ![t].exactAtRaise = @ \/ (IsExactVisit(t, v) /\ new = PRIO_HIGHEST)]
        /\ AfterVisits(t, Tail(todo[t]))
    /\ UNCHANGED <<busVars, waitVars, lifeVars, geo, stream, hasMeta, have, rdQueue, errs,
                   op, ops>>

\* read: if (!m_th.have_piece(part.piece))
HaveCheck(t) ==
    /\ pc[t] = "rd_have"
    /\ pc' = [pc EXCEPT ![t] = IF have[PartOf(t).piece] THEN "rp_sub" ELSE "pw_sub"]
    /\ UNCHANGED <<busVars, waitVars, lifeVars, readVars>>

\* read: DownloadPiecePromise dlprom; AlertSubscriber sub; get_future
PieceSubscribe(t) ==
    /\ pc[t] = "pw_sub"
    /\ ListenersLockFree
    /\ promise' = [promise EXCEPT ![t] = NewPromise("piece", TheKey, PartOf(t).piece)]
    /\ register_alert_listener(t)
    /\ waited' = [waited EXCEPT ![t] = 0]
    /\ hist' = [hist EXCEPT ![t].subscribed = TRUE]
    /\ pc' = [pc EXCEPT ![t] = "pw_wait"]
    /\ UNCHANGED <<alerts, batch, busPc, busAux, hook, intr, lifeVars, geo, stream, hasMeta, have,
                   prio, rdQueue, errs, op, todo, result, ops>>

\* read: f.wait_for(seconds(PIECE_READ_TIMEOUT)), time passing
PieceTick(t) ==
    /\ pc[t] = "pw_wait"
    /\ promise[t].state = "pending"
    /\ waited[t] < PIECE_READ_TIMEOUT
    /\ waited' = [waited EXCEPT ![t] =
                     Min(PIECE_READ_TIMEOUT, @ + TickStep(PIECE_READ_TIMEOUT))]
    /\ UNCHANGED <<busVars, promise, hook, intr, pc, lifeVars, readVars>>

\* variant: a read that goes on after the wait timed out
TimeoutError_ignored == NoResult

\* read: throw std::runtime_error("Timeout waiting for piece to download")
TimeoutError == Outcome("Timeout", 0)

\* read: wait_for returned future_status::timeout: throw
PieceTimeout(t) ==
    /\ pc[t] = "pw_wait"
    /\ promise[t].state = "pending"
    /\ waited[t] >= PIECE_READ_TIMEOUT
    /\ result' = [result EXCEPT ![t] = TimeoutError]
    /\ pc' = [pc EXCEPT ![t] = "pw_unsub"]
    /\ UNCHANGED <<busVars, waitVars, lifeVars, geo, stream, hasMeta, have, prio, rdQueue,
                   errs, op, todo, ops, hist>>

\* read: wait_for returned ready; f.get()
PieceReady(t) ==
    /\ pc[t] = "pw_wait"
    /\ promise[t].state # "pending"
    /\ result' = [result EXCEPT ![t] =
                     IF promise[t].state = "value" THEN NoResult
                     ELSE Outcome(promise[t].state, 0)]
    /\ pc' = [pc EXCEPT ![t] = "pw_unsub"]
    /\ UNCHANGED <<busVars, waitVars, lifeVars, geo, stream, hasMeta, have, prio, rdQueue,
                   errs, op, todo, ops, hist>>

\* read: ~AlertSubscriber at the end of the wait's block; after a
\* successful wait, the second have_piece test: return 0 when it fails
PieceUnsub(t) ==
    /\ pc[t] = "pw_unsub"
    /\ ListenersLockFree
    /\ unregister_alert_listener(t)
    /\ promise' = [promise EXCEPT ![t] = NoPromise]
    /\ waited' = [waited EXCEPT ![t] = 0]
    /\ IF result[t].kind # "none"
       THEN /\ pc' = [pc EXCEPT ![t] = "done"]
            /\ UNCHANGED result
       ELSE IF ~have[PartOf(t).piece]
       THEN /\ pc' = [pc EXCEPT ![t] = "done"]
            /\ result' = [result EXCEPT ![t] = Outcome("bytes", 0)]
       ELSE /\ pc' = [pc EXCEPT ![t] = "rp_sub"]
            /\ UNCHANGED result
    /\ UNCHANGED <<alerts, batch, busPc, busAux, hook, intr, lifeVars, geo, stream, hasMeta, have,
                   prio, rdQueue, errs, op, todo, ops, hist>>

\* read(part): ReadPiecePromise rdprom; AlertSubscriber sub
ReadSubscribe(t) ==
    /\ pc[t] = "rp_sub"
    /\ ListenersLockFree
    /\ promise' = [promise EXCEPT ![t] = NewPromise("read", TheKey, PartOf(t).piece)]
    /\ register_alert_listener(t)
    /\ hist' = [hist EXCEPT ![t].subscribed = TRUE]
    /\ pc' = [pc EXCEPT ![t] = "rp_req"]
    /\ UNCHANGED <<alerts, batch, busPc, busAux, waited, hook, intr, lifeVars, geo, stream, hasMeta,
                   have, prio, rdQueue, errs, op, todo, result, ops>>

\* read(part): vlc_interrupt_guard intrguard(rdprom); get_future;
\* m_th.read_piece(part.piece)
ReadRequest(t) ==
    /\ pc[t] = "rp_req"
    /\ GuardRegister(t)
    /\ rdQueue' = Append(rdQueue, PartOf(t).piece)
    /\ hist' = [hist EXCEPT ![t].hooked = TRUE, ![t].requested = TRUE]
    /\ pc' = [pc EXCEPT ![t] = "rp_wait"]
    /\ UNCHANGED <<busVars, waited, intr, lifeVars, geo, stream, hasMeta, have, prio, errs,
                   op, todo, result, ops>>

\* read(part): the byte count min(piece_size - start, buflen, length)
CopyLen(piece_size, part, buflen) ==
    Min(piece_size - part.start, Min(buflen, part.length))

\* read(part): f.get() returns the piece or throws; the guard is destroyed;
\* the bytes are copied
ReadWake(t) ==
    /\ pc[t] = "rp_wait"
    /\ promise[t].state # "pending"
    /\ GuardUnregister(t)
    /\ result' = [result EXCEPT ![t] =
          IF promise[t].state = "value"
          THEN LET len == CopyLen(promise[t].size, PartOf(t), IntBufLen(op[t])) IN
               IF len < 0 THEN Outcome("bytes", -1) ELSE Outcome("bytes", len)
          ELSE Outcome(promise[t].state, 0)]
    /\ pc' = [pc EXCEPT ![t] = "rp_unsub"]
    /\ UNCHANGED <<busVars, promise, waited, lifeVars, geo, stream, hasMeta, have, prio,
                   rdQueue, errs, op, todo, ops, hist>>

\* read(part): ~AlertSubscriber, return
ReadUnsub(t) ==
    /\ pc[t] = "rp_unsub"
    /\ ListenersLockFree
    /\ unregister_alert_listener(t)
    /\ promise' = [promise EXCEPT ![t] = NoPromise]
    /\ pc' = [pc EXCEPT ![t] = "done"]
    /\ UNCHANGED <<alerts, batch, busPc, busAux, waited, hook, intr, lifeVars, readVars>>

\* the host raises the interrupt of a thread inside a call
\* (vlc_interrupt_raise): the context becomes interrupted and a registered
\* callback runs
HostInterrupt(t) ==
    /\ pc[t] \notin {"idle", "done"}
    /\ ~intr[t]
    /\ intr' = [intr EXCEPT ![t] = TRUE]
    /\ promise' = [promise EXCEPT ![t] =
                      IF hook[t] THEN SetException(@, "Canceled") ELSE @]
    /\ hist' = [hist EXCEPT ![t].intrAt =
                    IF pc[t] = "pw_wait" /\ promise[t].state = "pending"
                    THEN waited[t] ELSE @]
    /\ UNCHANGED <<busVars, waited, hook, pc, lifeVars, geo, stream, hasMeta, have, prio,
                   rdQueue, errs, op, todo, result, ops>>

----------------------------------------------------------------------------
(* The engine (libtorrent), as far as the Download observes it *)

\* a piece passes its hash check: have_piece turns true, piece_finished_alert
EnginePieceFinished(p) ==
    /\ hasMeta
    /\ ~have[p]
    /\ p < MaxFinished
    /\ Len(alerts) < MaxQueued
    /\ have' = [have EXCEPT ![p] = TRUE]
    /\ alerts' = Append(alerts, Alert("piece_finished", TheKey, p, FALSE, 0))
    /\ UNCHANGED <<listeners, batch, busPc, busAux, waitVars, pc, lifeVars, geo, stream, hasMeta,
                   prio, rdQueue, errs, op, todo, result, ops, hist>>

\* the metadata arrives: metadata_received_alert
EngineMetadata ==
    /\ ~hasMeta
    /\ Len(alerts) < MaxQueued
    /\ hasMeta' = TRUE
    /\ alerts' = Append(alerts, Alert("metadata_received", TheKey, -1, FALSE, 0))
    /\ UNCHANGED <<listeners, batch, busPc, busAux, waitVars, pc, lifeVars, geo, stream, have,
                   prio, rdQueue, errs, op, todo, result, ops, hist>>

\* the engine reports a failure of the torrent
EngineFailure(type) ==
    /\ errs < MaxErrors
    /\ type = "metadata_failed" => ~hasMeta
    /\ Len(alerts) < MaxQueued
    /\ errs' = errs + 1
    /\ alerts' = Append(alerts, Alert(type, TheKey, -1, TRUE, 0))
    /\ UNCHANGED <<listeners, batch, busPc, busAux, waitVars, pc, lifeVars, geo, stream, hasMeta,
                   have, prio, rdQueue, op, todo, result, ops, hist>>

\* the engine answers a read_piece request: read_piece_alert with the
\* piece's bytes, or with an error (always when it does not own the piece)
EngineReadPiece(err) ==
    /\ rdQueue # <<>>
    /\ ~have[Head(rdQueue)] => err
    /\ Len(alerts) < MaxQueued
    /\ alerts' = Append(alerts,
          Alert("read_piece", TheKey, Head(rdQueue), err,
                IF err THEN 0 ELSE PieceSize(geo, Head(rdQueue))))
    /\ rdQueue' = Tail(rdQueue)
    /\ UNCHANGED <<listeners, batch, busPc, busAux, waitVars, pc, lifeVars, geo, stream, hasMeta,
                   have, prio, errs, op, todo, result, ops, hist>>

\* the engine answers a snapshot request: state_update_alert, dht_stats_alert
EngineSnapshot(type) ==
    /\ type \in posted
    /\ Len(alerts) < MaxAlerts
    /\ posted' = posted \ {type}
    /\ alerts' = Append(alerts, Alert(type, "", -1, FALSE, 0))
    /\ UNCHANGED <<listeners, batch, busPc, seen, sess, waitVars, pc, lifeVars, readVars>>

----------------------------------------------------------------------------
(* Download::get_metadata(url, save_path, cache_path, cb) for a magnet link *)

ResolveOp == [name |-> "resolve", file |-> 0, off |-> 0, len |-> 0, hi |-> 0, prio |-> 0]

\* a resolution that fetched the descriptor and wrote the cache file is over
Fetched(t) == pc[t] = "done" /\ InResolve(t) /\ hist[t].missed /\ result[t].kind = "descriptor"

\* the fallback trackers of get_metadata(url, ...)
public_trackers ==
    <<"udp://tracker.openbittorrent.com:6969/announce",
      "udp://tracker.opentrackr.org:1337/announce",
      "udp://open.demonii.com:1337/announce",
      "udp://tracker.coppersurfer.tk:6969/announce",
      "udp://tracker.leechers-paradise.org:6969/announce",
      "udp://exodus.desync.com:6969/announce",
      "udp://tracker.torrent.eu.org:451/announce",
      "udp://tracker.moeking.me:6969/announce",
      "udp://valakas.rollo.dnsabr.com:2710/announce",
      "udp://p4p.arenabg.com:1337/announce">>

\* variant: a resolver that keeps the tracker list of the magnet link as it is
ResolveTrackers_kept(embedded) == embedded

\* if (atp.trackers.empty()) atp.trackers = public_trackers
ResolveTrackers(embedded) == IF embedded = <<>> THEN public_trackers ELSE embedded

\* get_metadata(url, ...): parse_magnet_uri succeeds and fills atp.trackers
\* with the tr= parameters of the link, in order; the fallback trackers and
\* the cache path are set up; cb is the progress callback, given or not
ResolveStart(t, cb, embedded) ==
    /\ pc[t] = "idle"
    /\ holds[t] = 0
    /\ ops[t] < MaxOps
    /\ ops' = [ops EXCEPT ![t] = @ + 1]
    /\ op' = [op EXCEPT ![t] = ResolveOp]
    /\ hist' = [hist EXCEPT ![t] =
                   [NoHist EXCEPT !.cbGiven = cb,
                                  !.embedded = embedded,
                                  !.trackers = ResolveTrackers(embedded),
                                  !.late = \E u \in Threads \ {t} : Fetched(u)]]
    /\ result' = [result EXCEPT ![t] = NoResult]
    /\ pc' = [pc EXCEPT ![t] = "rs_probe"]
    /\ UNCHANGED <<busVars, waitVars, lifeVars, geo, stream, hasMeta, have, prio, rdQueue, errs, todo>>

\* torrent_info(path, ec_cache) parses what the file holds
Parseable(file) == file = "full"

\* get_metadata(url, ...): atp.ti = make_shared<torrent_info>(path, ec_cache).
\* A file that parses: the trackers are added, the descriptor is serialized
\* and returned.  Otherwise: the miss branch.
ResolveProbe(t) ==
    /\ pc[t] = "rs_probe"
    /\ IF Parseable(cache)
       THEN /\ hist' = [hist EXCEPT ![t].saw = cache, ![t].hit = TRUE]
            /\ result' = [result EXCEPT ![t] = Outcome("descriptor", 0)]
            /\ pc' = [pc EXCEPT ![t] = "done"]
       ELSE /\ hist' = [hist EXCEPT ![t].saw = cache, ![t].missed = TRUE]
            /\ pc' = [pc EXCEPT ![t] = "rs_get"]
            /\ UNCHANGED result
    /\ UNCHANGED <<busVars, waitVars, lifeVars, geo, stream, hasMeta, have, prio, rdQueue, errs,
                   op, todo, ops>>

\* Download::get_metadata(cb): download_metadata(cb) tests has_metadata and
\* returns at once with it, calling cb not at all; the descriptor is then
\* serialized
ResolveMeta(t) ==
    /\ pc[t] = "rs_meta"
    /\ hist' = [hist EXCEPT ![t].metaKnown = hasMeta]
    /\ pc' = [pc EXCEPT ![t] = IF MetadataKnown THEN "rs_release" ELSE "meta_sub"]
    /\ UNCHANGED <<busVars, waitVars, lifeVars, geo, stream, hasMeta, have, prio, rdQueue, errs,
                   op, todo, result, ops>>

\* get_metadata(url, ...): std::ofstream os(path, binary | trunc)
ResolveTruncate(t) ==
    /\ pc[t] = "rs_trunc"
    /\ cache' = "partial"
    /\ pc' = [pc EXCEPT ![t] = "rs_write"]
    /\ UNCHANGED <<readVars, busVars, waitVars, mtx, dls, dls_mtx, dl, cur, holds, rmPending>>

\* get_metadata(url, ...): os.write(...); os.close(); return metadata
ResolveWrite(t) ==
    /\ pc[t] = "rs_write"
    /\ cache' = "full"
    /\ result' = [result EXCEPT ![t] = Outcome("descriptor", 0)]
    /\ pc' = [pc EXCEPT ![t] = "done"]
    /\ UNCHANGED <<busVars, waitVars, mtx, dls, dls_mtx, dl, cur, holds, rmPending,
                   geo, stream, hasMeta, have, prio, rdQueue, errs, op, todo, ops, hist>>

----------------------------------------------------------------------------
(* Specifications *)

InitBus ==
    /\ listeners = <<>>
    /\ alerts = <<>>
    /\ batch = <<>>
    /\ busPc = "wait"
    /\ posted = {}
    /\ seen = NoAlert
    /\ sess = NewSession
    /\ promise = [t \in Threads |-> NoPromise]
    /\ waited = [t \in Threads |-> 0]
    /\ hook = [t \in Threads |-> FALSE]
    /\ intr = [t \in Threads |-> FALSE]

InitLifeVars ==
    /\ mtx = NoThread
    /\ dls = [k \in Keys |-> 0]
    /\ dls_mtx = [k \in Keys |-> 0]
    /\ dl = [i \in Ids |-> NewInst]
    /\ cur = [t \in Threads |-> 0]
    /\ holds = [t \in Threads |-> 0]
    /\ rmPending = [k \in Keys |-> 0]
    /\ cache = "absent"

\* no Download is being read: the read variables stay as they are
InitNoRead ==
    /\ geo = SmallTorrent
    /\ stream = NewStream
    /\ hasMeta = FALSE
    /\ have = [p \in Pieces(SmallTorrent) |-> FALSE]
    /\ prio = [p \in Pieces(SmallTorrent) |-> PRIO_NORMAL]
    /\ rdQueue = <<>>
    /\ errs = 0
    /\ op = [t \in Threads |-> NoOp]
    /\ todo = [t \in Threads |-> <<>>]
    /\ result = [t \in Threads |-> NoResult]
    /\ ops = [t \in Threads |-> 0]
    /\ hist = [t \in Threads |-> NoHist]

InitLife ==
    /\ InitBus
    /\ InitLifeVars
    /\ InitNoRead
    /\ pc = [t \in Threads |-> "idle"]

NextLife ==
    \/ \E t \in Threads, k \in Keys, keep \in BOOLEAN : GetDownload(t, k, keep)
    \/ \E t \in Threads, ok \in BOOLEAN : Construct(t, ok)
    \/ \E t \in Threads : Release(t)
    \/ \E t \in Threads : DtorSubscribe(t)
    \/ \E t \in Threads : DtorRemove(t)
    \/ \E t \in Threads : DtorTick(t)
    \/ \E t \in Threads : DtorWake(t)
    \/ \E t \in Threads : DtorUnsub(t)
    \/ \E t \in Threads : DtorUnlock(t)
    \/ \E k \in Keys : EngineRemoved(k)
    \/ BusPop
    \/ BusDeliver
    \/ BusDone
    \/ BusTimeout
    \/ BusContinue

SpecLife == InitLife /\ [][NextLife]_vars

\* the calls a thread may make
Offsets(g, f) == {-1, 0, g.plen - 1, FileSize(g, f) - 1, FileSize(g, f)}
ReadCalls(g) ==
    UNION {{ReadOp(f, off, 2) : off \in Offsets(g, f)} : f \in 0..(NumFiles(g) - 1)}
    \cup {ReadOp(0, 0, g.plen), WideReadOp(0, 0, 1, 1), WideReadOp(0, 0, 1, 0)}
    \cup {ReadOp(f, 0, 2) : f \in {-1, NumFiles(g)}}
SeekCalls(g) ==
    {SeekOp(0, off, size, pr) :
        off \in {0, g.plen - 1}, size \in {2, 50 * MB}, pr \in {PRIO_HIGH, PRIO_HIGHEST}}

\* one Download of TheKey is alive and shared by the threads in users; a
\* Download made from a magnet link may still lack its metadata
InitShared(users, metas) ==
    /\ InitBus
    /\ mtx = NoThread
    /\ dls = [k \in Keys |-> IF k = TheKey THEN 1 ELSE 0]
    /\ dls_mtx = [k \in Keys |-> IF k = TheKey THEN 1 ELSE 0]
    /\ dl = [i \in Ids |->
               IF i = 1
               THEN [NewInst EXCEPT !.state = "live", !.key = TheKey, !.keep = TRUE,
                                    !.refs = Cardinality(users)]
               ELSE NewInst]
    /\ cur = [t \in Threads |-> 0]
    /\ holds = [t \in Threads |-> IF t \in users THEN 1 ELSE 0]
    /\ rmPending = [k \in Keys |-> 0]
    /\ cache = "absent"
    /\ pc = [t \in Threads |-> "idle"]
    /\ geo \in Torrents
    /\ stream = NewStream
    /\ hasMeta \in metas
    /\ have = [p \in Pieces(geo) |-> FALSE]
    /\ prio = [p \in Pieces(geo) |-> PRIO_NORMAL]
    /\ rdQueue = <<>>
    /\ errs = 0
    /\ op = [t \in Threads |-> NoOp]
    /\ todo = [t \in Threads |-> <<>>]
    /\ result = [t \in Threads |-> NoResult]
    /\ ops = [t \in Threads |-> 0]
    /\ hist = [t \in Threads |-> NoHist]

\* one thread reads (DataRead)
Reader == "t1"

Init == InitShared({Reader}, BOOLEAN)

Next ==
    \/ \E o \in ReadCalls(geo) : Start(Reader, o)
    \/ MetaSubscribe(Reader)
    \/ MetaHook(Reader)
    \/ MetaWake(Reader)
    \/ MetaUnsub(Reader)
    \/ SpGet(Reader)
    \/ SpSet(Reader)
    \/ HaveCheck(Reader)
    \/ PieceSubscribe(Reader)
    \/ PieceTick(Reader)
    \/ PieceTimeout(Reader)
    \/ PieceReady(Reader)
    \/ PieceUnsub(Reader)
    \/ ReadSubscribe(Reader)
    \/ ReadRequest(Reader)
    \/ ReadWake(Reader)
    \/ ReadUnsub(Reader)
    \/ HostInterrupt(Reader)
    \/ \E p \in Pieces(geo) : EnginePieceFinished(p)
    \/ EngineMetadata
    \/ \E type \in {"torrent_error", "metadata_failed"} : EngineFailure(type)
    \/ \E err \in BOOLEAN : EngineReadPiece(err)
    \/ BusPop
    \/ BusDeliver
    \/ BusDone
    \/ BusTimeout
    \/ BusContinue

Spec == Init /\ [][Next]_vars

\* two threads raise priorities on the same Download (DataSeek, DataRead)
Seekers == {"t1", "t2"}

InitSeek == InitShared(Seekers, {TRUE})

NextSeek ==
    \/ \E t \in Seekers : \E o \in SeekCalls(geo) : Start(t, o)
    \/ \E t \in Seekers : SpGet(t)
    \/ \E t \in Seekers : SpSet(t)
    \/ \E p \in Pieces(geo) : EnginePieceFinished(p)
    \/ BusPop
    \/ BusDeliver
    \/ BusDone
    \/ BusTimeout
    \/ BusContinue

SpecSeek == InitSeek /\ [][NextSeek]_vars

\* one thread reads at the end of file 0 of the small torrent, made from a
\* magnet link: the call is download_metadata and its wait; meanwhile the
\* host's status interface comes and goes and the engine answers snapshot
\* requests
BusCall == ReadOp(0, FileSize(SmallTorrent, 0), 2)

InitStatus == InitShared({Reader}, {FALSE}) /\ geo = SmallTorrent

NextStatus ==
    \/ Start(Reader, BusCall)
    \/ MetaSubscribe(Reader)
    \/ MetaHook(Reader)
    \/ MetaWake(Reader)
    \/ MetaUnsub(Reader)
    \/ HostInterrupt(Reader)
    \/ StatusOpen
    \/ StatusClose
    \/ EngineMetadata
    \/ \E type \in {"torrent_error", "metadata_failed"} : EngineFailure(type)
    \/ \E type \in Snapshots : EngineSnapshot(type)
    \/ BusPop
    \/ BusDeliver
    \/ BusDone
    \/ BusTimeout
    \/ BusContinue

SpecStatus == InitStatus /\ [][NextStatus]_vars

\* two threads open and close Downloads of one torrent (DataOpen, DataClose);
\* the host may
\* interrupt a thread at any point of a call, the destructor included.  The
\* threads and the alert thread keep running: a destructor's own steps, the
\* passing of its wait_for clock and the alert thread's dispatch are weakly
\* fair; taking m_listeners_mtx, which the alert thread frees for every
\* wait_for_alert, is strongly fair.  The engine owes nothing: no fairness
\* on EngineRemoved.
Closers == {"t1", "t2"}

NextClose ==
    \/ \E t \in Closers, keep \in BOOLEAN : GetDownload(t, TheKey, keep)
    \/ \E t \in Closers, ok \in BOOLEAN : Construct(t, ok)
    \/ \E t \in Closers : Release(t)
    \/ \E t \in Closers : DtorSubscribe(t)
    \/ \E t \in Closers : DtorRemove(t)
    \/ \E t \in Closers : DtorTick(t)
    \/ \E t \in Closers : DtorWake(t)
    \/ \E t \in Closers : DtorUnsub(t)
    \/ \E t \in Closers : DtorUnlock(t)
    \/ \E t \in Closers : HostInterrupt(t)
    \/ EngineRemoved(TheKey)
    \/ BusPop
    \/ BusDeliver
    \/ BusDone
    \/ BusTimeout
    \/ BusContinue

FairClose ==
    /\ \A t \in Closers :
           /\ SF_vars(DtorSubscribe(t))
           /\ WF_vars(DtorRemove(t))
           /\ WF_vars(DtorTick(t))
           /\ WF_vars(DtorWake(t))
           /\ SF_vars(DtorUnsub(t))
           /\ WF_vars(DtorUnlock(t))
    /\ WF_vars(BusDeliver)
    /\ WF_vars(BusDone)

SpecClose == InitLife /\ [][NextClose]_vars /\ FairClose

\* three threads resolve the magnet link of one torrent, a link without
\* trackers, each with or without a progress callback; add_torrent succeeds
\* and the engine finds the metadata of a torrent it holds.  The first two call in the order of their
\* names, at any time; the third calls once a resolution has fetched the
\* descriptor and written the cache file.
Resolvers == Threads
FirstCaller == "t1"
SecondCaller == "t2"
LateCaller == "t3"

NextMeta ==
    \/ \E cb \in BOOLEAN : ResolveStart(FirstCaller, cb, <<>>)
    \/ \E cb \in BOOLEAN : ops[FirstCaller] > 0 /\ ResolveStart(SecondCaller, cb, <<>>)
    \/ \E cb \in BOOLEAN :
           (\E u \in Resolvers : Fetched(u)) /\ ResolveStart(LateCaller, cb, <<>>)
    \/ \E t \in Resolvers : ResolveProbe(t)
    \/ \E t \in Resolvers : GetDownload(t, TheKey, TRUE)
    \/ \E t \in Resolvers : Construct(t, TRUE)
    \/ \E t \in Resolvers : ResolveMeta(t)
    \/ \E t \in Resolvers : MetaSubscribe(t)
    \/ \E t \in Resolvers : MetaHook(t)
    \/ \E t \in Resolvers : MetaWake(t)
    \/ \E t \in Resolvers : MetaUnsub(t)
    \/ \E t \in Resolvers : Release(t)
    \/ \E t \in Resolvers : DtorSubscribe(t)
    \/ \E t \in Resolvers : DtorRemove(t)
    \/ \E t \in Resolvers : DtorTick(t)
    \/ \E t \in Resolvers : DtorWake(t)
    \/ \E t \in Resolvers : DtorUnsub(t)
    \/ \E t \in Resolvers : DtorUnlock(t)
    \/ \E t \in Resolvers : ResolveTruncate(t)
    \/ \E t \in Resolvers : ResolveWrite(t)
    \/ (\E i \in Ids : dl[i].state = "live") /\ EngineMetadata
    \/ EngineRemoved(TheKey)
    \/ BusPop
    \/ BusDeliver
    \/ BusDone

SpecMeta == InitLife /\ [][NextMeta]_vars

\* one thread calls get_metadata(cb) on the Download it holds, made from a
\* magnet link or with its metadata already known; the engine may find the
\* metadata or fail, and the host may interrupt
NextGetMeta ==
    \/ \E cb \in BOOLEAN : GetMetadata(Reader, cb)
    \/ MetaSubscribe(Reader)
    \/ MetaHook(Reader)
    \/ MetaWake(Reader)
    \/ MetaUnsub(Reader)
    \/ HostInterrupt(Reader)
    \/ EngineMetadata
    \/ \E type \in {"torrent_error", "metadata_failed"} : EngineFailure(type)
    \/ BusPop
    \/ BusDeliver
    \/ BusDone
    \/ BusTimeout
    \/ BusContinue

SpecGetMeta == InitShared({Reader}, BOOLEAN) /\ [][NextGetMeta]_vars

\* one thread resolves a magnet link with no, one or two embedded trackers,
\* with the cache file of an earlier run present or not
EmbeddedTrackers ==
    {"udp://tracker.opentrackr.org:1337/announce", "http://tracker.example.org/announce"}
MagnetLinks == UNION {[1..n -> EmbeddedTrackers] : n \in 0..MaxEmbedded}

InitMagnet ==
    /\ InitBus
    /\ mtx = NoThread
    /\ dls = [k \in Keys |-> 0]
    /\ dls_mtx = [k \in Keys |-> 0]
    /\ dl = [i \in Ids |-> NewInst]
    /\ cur = [t \in Threads |-> 0]
    /\ holds = [t \in Threads |-> 0]
    /\ rmPending = [k \in Keys |-> 0]
    /\ cache \in {"absent", "full"}
    /\ InitNoRead
    /\ pc = [t \in Threads |-> "idle"]

NextMagnet ==
    \/ \E cb \in BOOLEAN, e \in MagnetLinks : ResolveStart(FirstCaller, cb, e)
    \/ ResolveProbe(FirstCaller)
    \/ GetDownload(FirstCaller, TheKey, TRUE)
    \/ Construct(FirstCaller, TRUE)
    \/ ResolveMeta(FirstCaller)
    \/ MetaSubscribe(FirstCaller)
    \/ MetaHook(FirstCaller)
    \/ MetaWake(FirstCaller)
    \/ MetaUnsub(FirstCaller)
    \/ Release(FirstCaller)
    \/ DtorSubscribe(FirstCaller)
    \/ DtorRemove(FirstCaller)
    \/ DtorTick(FirstCaller)
    \/ DtorWake(FirstCaller)
    \/ DtorUnsub(FirstCaller)
    \/ DtorUnlock(FirstCaller)
    \/ ResolveTruncate(FirstCaller)
    \/ ResolveWrite(FirstCaller)
    \/ (\E i \in Ids : dl[i].state = "live") /\ EngineMetadata
    \/ EngineRemoved(TheKey)
    \/ BusPop
    \/ BusDeliver
    \/ BusDone

SpecMagnet == InitMagnet /\ [][NextMagnet]_vars

----------------------------------------------------------------------------
(* Properties of get_download and of the Download lifetime (SpecLife) *)

InstancesOf(k) == {i \in Ids : dl[i].state # "unused" /\ dl[i].key = k}
HoldersOf(k) == {t \in Threads : holds[t] # 0 /\ dl[holds[t]].key = k}

\* no instance of k was destroyed and no construction for k failed
NeverLost(k) == \A i \in InstancesOf(k) : dl[i].state \in {"ctor", "live"}

\* C1: while no instance of a key has been destroyed or failed to construct,
\* however many threads called get_download for the key, the constructor was
\* entered at most once for it and all callers that returned hold the same
\* instance, whose reference count is the number of holders.
C1_OneConstruction ==
    \A k \in Keys :
        NeverLost(k) =>
            /\ Cardinality(InstancesOf(k)) <= 1
            /\ \A t \in HoldersOf(k) :
                   /\ InstancesOf(k) = {holds[t]}
                   /\ dl[holds[t]].state = "live"
                   /\ dl[holds[t]].refs = Cardinality(HoldersOf(k))

\* C1 witness: every thread called get_download for one key and all of them
\* hold the one instance
C1_AllShare ==
    \E k \in Keys :
        /\ NeverLost(k)
        /\ HoldersOf(k) = Threads
        /\ Cardinality(InstancesOf(k)) = 1

\* the instances of k between the start of add_torrent and the end of the
\* destructor
Existing(k) == {i \in InstancesOf(k) : dl[i].state \in {"live", "dtor"}}

\* C2: per key at most one instance exists between its add_torrent and the
\* end of its destructor; an instance whose constructor still waits
\* ("ctor") has not called add_torrent while an older one is being destroyed.
C2_OnePerKey ==
    \A k \in Keys : Cardinality(Existing(k)) <= 1

\* C2 witness: an instance is in its destructor's removal wait while a
\* get_download for the same key has entered the constructor of a new one
C2_RecreateDuringDestroy ==
    \E t \in Threads, u \in Threads :
        /\ pc[t] = "dtor_wait"
        /\ pc[u] = "ctor_lock"
        /\ dl[cur[u]].key = dl[cur[t]].key
        /\ dl[cur[u]].state = "ctor"
        /\ dl[cur[t]].state = "dtor"

----------------------------------------------------------------------------
(* Properties of read (Spec) *)

\* the reader is inside read, after its arguments passed validation
InRead == op[Reader].name = "read" /\ pc[Reader] \notin {"idle"}

\* C3: a read whose piece-presence wait the host interrupt hit before the
\* wait's ceiling does not end with the Timeout outcome, that is, after
\* the full 60 seconds.
C3_InterruptCutsPieceWait ==
    hist[Reader].intrAt \in 0..(PIECE_READ_TIMEOUT - 1)
        => result[Reader].kind # "Timeout"

\* C6 (as stated): a read that returned a positive count owns its piece and
\* that piece had priority 7 when the read raised its exact range.
C6_RaisedBeforeCheck ==
    (pc[Reader] \in {"rp_unsub", "done"} /\ result[Reader].kind = "bytes"
        /\ result[Reader].n > 0)
    => /\ have[PartOf(Reader).piece]
       /\ hist[Reader].exactAtRaise

\* C6: a read that returned a positive count owns its piece, by then, and
\* when the read raised its exact range, before the presence check, the piece
\* either had priority 7 or was already owned (an owned piece is not raised).
C6_OwnedAndRaisedUnlessOwned ==
    (pc[Reader] \in {"rp_unsub", "done"} /\ result[Reader].kind = "bytes"
        /\ result[Reader].n > 0)
    => /\ have[PartOf(Reader).piece]
       /\ Covering(geo, op[Reader].file, op[Reader].off, result[Reader].n)
              = {PartOf(Reader).piece}
       /\ hist[Reader].exactAtRaise \/ hist[Reader].ownedAtRaise
       /\ hist[Reader].exactAtRaise => prio[PartOf(Reader).piece] = PRIO_HIGHEST

\* C6 witnesses: a positive read of a piece that was raised to 7 and then
\* waited for, and one of a piece owned before the read began
C6_ReadAfterRaise ==
    /\ pc[Reader] = "done" /\ result[Reader].kind = "bytes" /\ result[Reader].n > 0
    /\ hist[Reader].exactAtRaise /\ ~hist[Reader].ownedAtRaise

\* a read of a valid file at or past its end
AtEof(t) ==
    /\ op[t].name = "read"
    /\ op[t].file \in 0..(NumFiles(geo) - 1)
    /\ op[t].off >= FileSize(geo, op[t].file)

\* C7 (as stated): a read at or past the end of a valid file has returned 0
\* as soon as it was called, and registered no listener and no hook.
C7_EofReturnsAtOnce ==
    AtEof(Reader) =>
        /\ pc[Reader] = "done" /\ result[Reader] = Outcome("bytes", 0)
        /\ ~hist[Reader].subscribed /\ ~hist[Reader].hooked /\ ~hist[Reader].wrote

\* C7: a read at or past the end of a valid file never changes a priority
\* and never asks for piece bytes, and ends with 0 or with the metadata
\* wait's error; when the metadata is known at the call it has returned 0 as
\* soon as it was called, with no listener and no hook registered.
C7_EofWithMetadata ==
    AtEof(Reader) =>
        /\ ~hist[Reader].wrote /\ ~hist[Reader].requested
        /\ pc[Reader] = "done" =>
               \/ result[Reader] = Outcome("bytes", 0)
               \/ ~hist[Reader].metaKnown
                    /\ result[Reader].kind \in {"SwarmError", "Canceled"}
        /\ hist[Reader].metaKnown =>
               /\ pc[Reader] = "done" /\ result[Reader] = Outcome("bytes", 0)
               /\ ~hist[Reader].subscribed /\ ~hist[Reader].hooked

\* C7 witnesses: the read at the end of file returned 0 with the metadata
\* known
C7_EofRead ==
    /\ AtEof(Reader) /\ hist[Reader].metaKnown
    /\ pc[Reader] = "done" /\ result[Reader] = Outcome("bytes", 0)

\* the reader's own next step is possible: its wait is over, or its clock
\* still runs toward a ceiling
WaitCanEnd(t) ==
    ENABLED (MetaWake(t) \/ PieceTick(t) \/ PieceTimeout(t) \/ PieceReady(t)
                \/ ReadWake(t))

\* C8: in each of its three waits the read can go on by itself: the awaited
\* result is there or time is running toward the wait's ceiling.
C8_EveryWaitHasCeiling ==
    pc[Reader] \in {"meta_wait", "pw_wait", "rp_wait"} => WaitCanEnd(Reader)

\* C9: when the piece wait's 60 seconds are over with the promise still
\* unresolved, the read's next step ends it with the Timeout error and
\* sends no read_piece request; a read that ended with Timeout has copied no
\* bytes and has asked for none.
C9_TimeoutEndsRead ==
    /\ [][(/\ pc[Reader] = "pw_wait"
           /\ promise[Reader].state = "pending"
           /\ waited[Reader] >= PIECE_READ_TIMEOUT
           /\ pc'[Reader] # "pw_wait")
          => (result'[Reader].kind = "Timeout" /\ rdQueue' = rdQueue)]_vars
    /\ [](result[Reader].kind = "Timeout" =>
            /\ pc[Reader] \in {"pw_unsub", "done"}
            /\ result[Reader].n = 0
            /\ ~hist[Reader].requested)

\* C9 witness: the read of a piece that is still not owned ended with Timeout
C9_TimedOut ==
    /\ pc[Reader] = "done" /\ result[Reader].kind = "Timeout"
    /\ ~have[PartOf(Reader).piece]

\* C10: a read waiting for its piece, whose promise was handed a
\* torrent_error alert of its torrent, has its promise resolved with the
\* engine's error.
C10_ErrorEndsPieceWait ==
    (pc[Reader] = "pw_wait" /\ promise[Reader].errSeen)
        => promise[Reader].state = "SwarmError"

----------------------------------------------------------------------------
(* Properties of set_piece_priority (SpecSeek) *)

\* C4: no step lowers the priority of a piece that is not owned.
C4_PriorityNeverDrops ==
    [][\A p \in Pieces(geo) : ~have[p] => prio'[p] >= prio[p]]_vars

\* the pieces holding a byte of the range of seeker t's call
CoveredBy(t) ==
    Covering(geo, op[t].file, ClampOff(geo, op[t].file, op[t].off),
             ClampSize(geo, op[t].file, op[t].off, op[t].len))

\* C5: when the only caller's set_piece_priority has returned, every piece
\* covering its range that is not owned has at least the call's priority,
\* and every piece outside the range has the priority it had before.
C5_CoveringPiecesRaised ==
    \A t \in Seekers :
        (pc[t] = "done" /\ \A u \in Seekers \ {t} : ops[u] = 0)
        => /\ \A p \in CoveredBy(t) : ~have[p] => prio[p] = Max(PRIO_NORMAL, op[t].prio)
           /\ \A p \in Pieces(geo) \ CoveredBy(t) : prio[p] = PRIO_NORMAL

----------------------------------------------------------------------------
(* Properties of the promises and of the alert thread *)

\* the control points between the construction of an AlertSubscriber and its
\* destruction: the wait of the promise it subscribed is in progress
WaitPcs ==
    {"meta_hook", "meta_wait", "meta_unsub", "pw_wait", "pw_unsub",
     "rp_req", "rp_wait", "rp_unsub", "dtor_remove", "dtor_wait", "dtor_unsub"}
Waiting == {t \in Threads : pc[t] \in WaitPcs}

\* the registered listeners that are promises
PromiseListeners == SelectSeq(listeners, LAMBDA l : l \in Threads)

Delivered == busPc = "dispatch" /\ batch # <<>> /\ (batch' # batch \/ busPc' = "dead")

\* C12: once a promise is resolved (by an alert or by the host's interrupt)
\* its outcome and value stay as they are for as long as the promise exists;
\* when a later alert makes a resolved promise's handler try to resolve it
\* again, the alert still reaches the status listener and the dispatch goes on
\* with the rest of the batch.
C12_ResolvedOnce ==
    [][/\ \A t \in Threads :
              (promise[t].kind # "none" /\ promise[t].state # "pending"
                  /\ promise'[t].kind # "none")
              => (promise'[t].state = promise[t].state
                  /\ promise'[t].size = promise[t].size)
       /\ (Delivered /\ \E l \in Range(listeners) : Throws(l, Head(batch)))
              => /\ busPc' = "dispatch"
                 /\ batch' = Tail(batch)
                 /\ StatusListener \in Range(listeners) => seen' = Head(batch)
      ]_vars

\* C12 witness: the metadata promise was resolved by metadata_received, a
\* later torrent_error of the same torrent was handed to it and discarded,
\* and the status listener behind it in the list saw that alert
C12_LateEventDiscarded ==
    /\ promise[Reader].kind = "meta"
    /\ promise[Reader].state = "value"
    /\ promise[Reader].errSeen
    /\ seen.type = "torrent_error"
    /\ busPc # "dead"

\* the alert is about the promise's torrent and, where it names a piece,
\* about the promise's piece
SameSubject(p, a) == a.key = p.key /\ (a.piece # -1 => a.piece = p.piece)

\* the alerts that report the success of what a promise of this kind waits for
SuccessEvent(p, a) ==
    \/ p.kind = "read" /\ a.type = "read_piece" /\ ~a.err
    \/ p.kind = "piece" /\ a.type = "piece_finished"
    \/ p.kind = "meta" /\ a.type = "metadata_received"
    \/ p.kind = "remove" /\ a.type = "torrent_removed"

\* the alerts that report its failure
FailureEvent(p, a) ==
    \/ p.kind = "read" /\ a.type = "read_piece" /\ a.err
    \/ p.kind = "meta" /\ a.type = "metadata_failed"
    \/ p.kind \in {"read", "piece", "meta"} /\ a.type = "torrent_error"

\* C13: when the dispatch loop hands an alert to a registered pending
\* promise, the promise ends with success if the alert is a success event of
\* its own torrent and piece, with SwarmError if it is a failure event (read
\* error, metadata failed, torrent error) of its own torrent and piece, and
\* stays pending otherwise.
C13_MatchingEventResolves ==
    [][Delivered =>
          \A t \in Range(listeners) \cap Threads :
              promise[t].state = "pending" =>
                  promise'[t].state =
                      IF SameSubject(promise[t], Head(batch))
                            /\ SuccessEvent(promise[t], Head(batch))
                      THEN "value"
                      ELSE IF SameSubject(promise[t], Head(batch))
                                /\ FailureEvent(promise[t], Head(batch))
                      THEN "SwarmError"
                      ELSE "pending"
      ]_vars

\* C14: when handle_alert of a listener throws on an alert, handle_alert is
\* still called with that alert on every listener of the list, the ones
\* behind the faulty one included; the faulty listener stays registered, the
\* rest of the batch stays to be dispatched and the alert thread keeps
\* running.
C14_ThrowIsolated ==
    [][/\ (Delivered /\ \E l \in Range(listeners) : Throws(l, Head(batch)))
              => /\ \A t \in Range(listeners) \cap Threads :
                        promise'[t] = HandleAlert(promise[t], Head(batch))
                 /\ StatusListener \in Range(listeners) => seen' = Head(batch)
                 /\ listeners' = listeners
                 /\ batch' = Tail(batch)
                 /\ busPc' = "dispatch"
       /\ busPc' # "dead"
      ]_vars

\* C14 witness: the metadata promise, first in the list and already
\* canceled, threw on a torrent_error alert; the status listener behind it
\* received the alert and the loop is still dispatching or waiting
C14_ThrowSurvived ==
    /\ listeners = <<Reader, StatusListener>>
    /\ promise[Reader].state = "Canceled"
    /\ promise[Reader].errSeen
    /\ seen.type = "torrent_error"
    /\ busPc \in {"dispatch", "wait"}

\* C15: a wake of the alert thread takes the whole queue of the engine, in
\* queue order, as its batch; while the batch is dispatched the listener list
\* does not change; an alert leaves the batch only from its front and only in
\* the step that called handle_alert with it on every registered listener;
\* the dispatch ends only when the batch is empty.
C15_AllToAllInOrder ==
    [][/\ (busPc = "wait" /\ busPc' = "dispatch")
              => batch' = alerts /\ alerts' = <<>>
       /\ busPc = "dispatch" => listeners' = listeners
       /\ (busPc = "dispatch" /\ batch' # batch)
              => /\ batch # <<>>
                 /\ batch' = Tail(batch)
                 /\ \A t \in Range(listeners) \cap Threads :
                        promise'[t] = HandleAlert(promise[t], Head(batch))
                 /\ StatusListener \in Range(listeners) => seen' = Head(batch)
       /\ (busPc = "dispatch" /\ busPc' # "dispatch") => batch = <<>>
      ]_vars

\* C15 witness: the alert thread drained two alerts, metadata_received and
\* behind it a snapshot, while the reader's promise and the status listener
\* are registered
C15_BatchOfTwo ==
    /\ busPc = "dispatch"
    /\ Len(batch) = 2
    /\ batch[1].type = "metadata_received"
    /\ batch[2].type \in Snapshots
    /\ alerts = <<>>
    /\ Range(listeners) = {Reader, StatusListener}

\* C16: every return of the alert thread's bounded wait, with an alert ready
\* or on timeout, is followed at once by the snapshot requests
\* (post_torrent_updates, post_dht_stats) and the drain of the queue.
C16_SnapshotOnEveryWake ==
    [][(busPc = "wait" /\ busPc' # "wait")
          => (Snapshots \subseteq posted' /\ batch' = alerts /\ alerts' = <<>>)]_vars

----------------------------------------------------------------------------
(* Properties of the interruptible waits (Spec) *)

\* the waits that construct a vlc_interrupt_guard: download_metadata and
\* read(peer_request)
GuardedWaitPcs == {"meta_wait", "rp_wait"}

\* C17: in the metadata wait and in the piece-bytes wait a host interrupt
\* that finds the promise pending resolves it with Canceled, and the call
\* then leaves the wait with the Canceled outcome; the interrupt callback is
\* registered only inside these two waits, and every step that leaves one of
\* them, whatever the outcome, has unregistered the callback while the
\* promise still exists.
C17_InterruptCancels ==
    [][\A t \in Threads :
              /\ hook'[t] => pc'[t] \in GuardedWaitPcs /\ promise'[t].kind # "none"
              /\ (pc[t] \in GuardedWaitPcs /\ ~intr[t] /\ intr'[t]
                     /\ promise[t].state = "pending")
                    => promise'[t].state = "Canceled"
              /\ (pc[t] \in GuardedWaitPcs /\ intr[t])
                    => promise[t].state # "pending"
              /\ (pc[t] \in GuardedWaitPcs /\ pc'[t] # pc[t])
                    => /\ ~hook'[t]
                       /\ promise'[t].kind # "none"
                       /\ promise[t].state = "Canceled" => result'[t].kind = "Canceled"
    ]_vars

\* C17 witness: a read whose piece-bytes request was issued ended with
\* Canceled; the callback is unregistered and the promise destroyed
C17_BytesWaitCanceled ==
    /\ pc[Reader] = "done"
    /\ hist[Reader].requested
    /\ result[Reader].kind = "Canceled"
    /\ ~hook[Reader]
    /\ promise[Reader] = NoPromise

----------------------------------------------------------------------------
(* Properties of the destructor (SpecClose) *)

DtorPcs == {"dtor_sub", "dtor_remove", "dtor_wait", "dtor_unsub", "dtor_unlock"}

\* C18: a destructor that has started always finishes, with its listener
\* unregistered, whether or not the engine ever confirms the removal.  On the
\* way it asks the engine to remove the torrent, waits on a RemovePromise of
\* its own key for at most REMOVE_TIMEOUT seconds, goes on to unregister and
\* unlock whatever the wait gave, registers no interrupt callback, and a host
\* interrupt leaves its promise as it is.
C18_DestructionCompletes ==
    /\ \A t \in Closers :
           (pc[t] = "dtor_sub") ~> (pc[t] = "idle" /\ t \notin Range(listeners))
    /\ [][\A t \in Closers :
              /\ pc'[t] \in DtorPcs => ~hook'[t]
              /\ (pc[t] \in DtorPcs /\ ~intr[t] /\ intr'[t]) => promise'[t] = promise[t]
              /\ pc'[t] \in {"dtor_remove", "dtor_wait", "dtor_unsub"}
                    => /\ promise'[t].kind = "remove"
                       /\ promise'[t].key = dl'[cur'[t]].key
                       /\ waited'[t] <= REMOVE_TIMEOUT
              /\ (pc[t] = "dtor_remove" /\ pc'[t] # pc[t])
                    => rmPending'[dl[cur[t]].key] = rmPending[dl[cur[t]].key] + 1
              /\ (pc[t] = "dtor_wait" /\ pc'[t] # pc[t]) => pc'[t] = "dtor_unsub"
              /\ (pc[t] = "dtor_unsub" /\ pc'[t] # pc[t])
                    => pc'[t] = "dtor_unlock" /\ t \notin Range(listeners')
              /\ (pc[t] = "dtor_unlock" /\ pc'[t] # pc[t])
                    => pc'[t] = "idle" /\ dl'[cur[t]].state = "gone"
         ]_vars

\* C18 witness: a destructor gave up its wait after REMOVE_TIMEOUT seconds
\* with the removal unconfirmed, was interrupted by the host on the way, and
\* is about to unregister its listener
C18_TimedOutRemoval ==
    \E t \in Closers :
        /\ pc[t] = "dtor_unsub"
        /\ promise[t].state = "pending"
        /\ waited[t] = REMOVE_TIMEOUT
        /\ intr[t]

----------------------------------------------------------------------------
(* Properties of get_metadata(url, save_path, cache_path, cb) (SpecMeta) *)

\* C19: a resolution that begins after another resolution of the same
\* magnet link fetched the descriptor and wrote the cache file is served from
\* the cache file: it never enters get_download or a constructor, and never
\* subscribes to wait for metadata.
C19_LaterResolutionHitsCache ==
    \A t \in Resolvers :
        hist[t].late =>
            /\ pc[t] \in {"rs_probe", "done"}
            /\ ~hist[t].missed
            /\ ~hist[t].subscribed

\* C20: a resolution that was served from the cache file and was given a
\* progress callback has called it with 0 and then with 100 by the time it
\* returns.
C20_CallbackOnHit ==
    \A t \in Resolvers :
        (pc[t] = "done" /\ hist[t].hit /\ hist[t].cbGiven) => hist[t].cb = <<0, 100>>

----------------------------------------------------------------------------
(* Properties of Download::get_metadata(cb) (SpecGetMeta) *)

\* C21: get_metadata(cb) on a Download whose metadata is known returns the
\* descriptor at once, without a listener, an interrupt callback or a call
\* of cb.  Otherwise every call of cb made so far is 0 then 100 in this
\* order; cb(0) was made before the wait began; cb(100) is made only by the
\* step that leaves the wait with the promise resolved by metadata_received;
\* a call that ended with an error made cb(0) only and a call that returned
\* the descriptor made both.
C21_ProgressCallback ==
    [][LET t == Reader IN
       /\ (pc'[t] = "done" /\ hist'[t].metaKnown)
             => /\ result'[t] = Outcome("descriptor", 0)
                /\ ~hist'[t].subscribed /\ ~hist'[t].hooked
                /\ hist'[t].cb = <<>>
                /\ pc[t] \in {"idle", "done"}
       /\ ~hist'[t].cbGiven => hist'[t].cb = <<>>
       /\ (hist'[t].cbGiven /\ ~hist'[t].metaKnown)
             => /\ pc'[t] = "meta_hook" => hist'[t].cb = <<>>
                /\ pc'[t] = "meta_wait" => hist'[t].cb = <<0>>
                /\ pc'[t] \in {"meta_unsub", "done"} =>
                      hist'[t].cb = IF result'[t].kind \in {"none", "descriptor"}
                                    THEN <<0, 100>> ELSE <<0>>
       /\ (Len(hist'[t].cb) = 2 /\ Len(hist[t].cb) < 2)
             => /\ pc[t] = "meta_wait"
                /\ promise[t].state = "value"
                /\ hasMeta
    ]_vars

\* C21 witness: a call with a callback waited, was canceled by the host and
\* ended with cb called with 0 only
C21_CanceledAfterZero ==
    /\ pc[Reader] = "done"
    /\ hist[Reader].cbGiven
    /\ result[Reader].kind = "Canceled"
    /\ hist[Reader].cb = <<0>>

\* C22: in a resolution of a magnet link, from the moment the link is parsed
\* over get_download / add_torrent to its return, the tracker list of the
\* add-parameters is the fixed list of public trackers if the link embeds no
\* tracker, and the link's own list, unchanged, if it embeds at least one.
C22_FallbackTrackers ==
    \A t \in Resolvers :
        InResolve(t) =>
            /\ hist[t].embedded = <<>> => hist[t].trackers = public_trackers
            /\ hist[t].embedded # <<>> => hist[t].trackers = hist[t].embedded

\* C22 witness: a link without trackers went to the constructor (add_torrent)
\* with the public trackers
C22_FallbackAdded ==
    /\ pc[FirstCaller] = "rs_meta"
    /\ hist[FirstCaller].embedded = <<>>
    /\ hist[FirstCaller].trackers = public_trackers
    /\ dl[holds[FirstCaller]].state = "live"

\* a read with a file index outside the file table, or with a negative
\* offset, and the error it is to end with
BadArgs(t) ==
    /\ op[t].name = "read"
    /\ op[t].file \notin 0..(NumFiles(geo) - 1) \/ op[t].off < 0
BadArgsError(t) ==
    IF op[t].file \notin 0..(NumFiles(geo) - 1)
    THEN Outcome("NotFound", 0) ELSE Outcome("InvalidArgument", 0)

\* C23 (as stated): a read with a bad file index or a negative offset
\* registers no listener, changes no priority and requests no piece, and
\* ends with NotFound or InvalidArgument.
C23_BadArgsRejected ==
    BadArgs(Reader) =>
        /\ ~hist[Reader].subscribed /\ ~hist[Reader].wrote /\ ~hist[Reader].requested
        /\ pc[Reader] = "done" => result[Reader] = BadArgsError(Reader)

\* C23: a read with a bad file index, or with a negative offset in a file of
\* the table, never changes a priority and never asks for piece bytes, and
\* ends with NotFound, respectively InvalidArgument, or with the metadata
\* wait's error; when the metadata is known at the call it has ended so as
\* soon as it was called, with no listener and no hook registered.
C23_BadArgsWithMetadata ==
    BadArgs(Reader) =>
        /\ ~hist[Reader].wrote /\ ~hist[Reader].requested
        /\ pc[Reader] = "done" =>
               \/ result[Reader] = BadArgsError(Reader)
               \/ ~hist[Reader].metaKnown
                    /\ result[Reader].kind \in {"SwarmError", "Canceled"}
        /\ hist[Reader].metaKnown =>
               /\ pc[Reader] = "done" /\ result[Reader] = BadArgsError(Reader)
               /\ ~hist[Reader].subscribed /\ ~hist[Reader].hooked

\* C23 witness: a read at offset -1 of a file of the table, with the
\* metadata known, ended with InvalidArgument
C23_NegativeOffsetRead ==
    /\ BadArgs(Reader) /\ hist[Reader].metaKnown
    /\ op[Reader].off < 0
    /\ pc[Reader] = "done" /\ result[Reader] = Outcome("InvalidArgument", 0)

\* the count the read of o is to return: the least of maxLen = hi * 2^32 +
\* len, the bytes left in the file and the bytes from the offset to the end
\* of the piece holding it
ClaimedCount(g, o) ==
    LET offset == FileOffset(g, o.file) + o.off
        pend == Min((offset \div g.plen + 1) * g.plen, TotalSize(g))
        rest == Min(FileSize(g, o.file) - o.off, pend - offset)
    IN  IF o.hi > 0 THEN rest ELSE Min(o.len, rest)
InsideFile(t) ==
    /\ op[t].name = "read"
    /\ op[t].file \in 0..(NumFiles(geo) - 1)
    /\ op[t].off >= 0 /\ op[t].off < FileSize(geo, op[t].file)

\* C24: a read inside the file that returns a count returns exactly
\* min(maxLen, fileSize - off, bytes to the end of the first covering piece),
\* which is neither negative nor more than maxLen.
C24_ReadCount ==
    (InsideFile(Reader) /\ pc[Reader] = "done" /\ result[Reader].kind = "bytes")
        => result[Reader].n = ClaimedCount(geo, op[Reader])

\* the three bands of a read of file f at offset off asking for len bytes:
\* the pieces of the requested range, of the head and tail windows, and of
\* the read-ahead window, each cut to the file
EdgeWindow(g, f) == Max(FileSize(g, f) \div 1000, 128 * kB)
AheadWindow(g, f) == Max((5 * FileSize(g, f)) \div 100, 32 * MB)
ExactBand(g, o) ==
    Covering(g, o.file, o.off, Min(ClampedBufLen(o), FileSize(g, o.file) - o.off))
EdgeBand(g, o) ==
    LET w == Min(EdgeWindow(g, o.file), FileSize(g, o.file)) IN
    Covering(g, o.file, 0, w) \cup Covering(g, o.file, FileSize(g, o.file) - w, w)
AheadBand(g, o) ==
    Covering(g, o.file, o.off, Min(AheadWindow(g, o.file), FileSize(g, o.file) - o.off))
BandPriority(g, o, p) ==
    IF p \in ExactBand(g, o) THEN PRIO_HIGHEST
    ELSE IF p \in EdgeBand(g, o) THEN PRIO_HIGHER
    ELSE IF p \in AheadBand(g, o) THEN PRIO_HIGH
    ELSE PRIO_NORMAL

\* C25: when a read inside a file of a torrent with no owned piece has set
\* its priorities and is about to test for its piece, every piece stands at
\* the highest tier of the bands it lies in: 7 in the requested range, 6 in
\* the head and tail windows, 5 in the read-ahead window, and is unchanged
\* outside them.
C25_ThreeBands ==
    (InsideFile(Reader) /\ pc[Reader] = "rd_have" /\ \A p \in Pieces(geo) : ~have[p])
        => \A p \in Pieces(geo) : prio[p] = BandPriority(geo, op[Reader], p)

----------------------------------------------------------------------------
(* The data stream of one file: DataSeek, DataRead, DataControl (data.cpp) *)

\* a callback of the stream enters Download::read or set_piece_priority:
\* download_metadata() tests has_metadata
Call(t, o) ==
    /\ op' = [op EXCEPT ![t] = o]
    /\ hist' = [hist EXCEPT ![t] = [NoHist EXCEPT !.metaKnown = hasMeta]]
    /\ IF MetadataKnown
       THEN AfterMeta(t, o)
       ELSE /\ pc' = [pc EXCEPT ![t] = "meta_sub"]
            /\ result' = [result EXCEPT ![t] = NoResult]
            /\ todo' = [todo EXCEPT ![t] = <<>>]

\* the stream's thread is in none of its callbacks and may enter one
StreamIdle(t) ==
    /\ pc[t] \in {"idle", "done"}
    /\ stream.fn = "none"
    /\ stream.calls < MaxDataCalls

\* DataSeek: the range and tier it hands to set_piece_priority
\* 50 * 1024 * 1024
SEEK_WINDOW == 52428800
SeekCall(f, pos) == SeekOp(f, pos, SEEK_WINDOW, 7)

\* DataSeek(i_pos): vlc_stream_Seek on the source fails (ok = FALSE) and
\* VLC_EGENERIC is returned, or i_pos is stored and set_piece_priority is
\* entered
DataSeek(t, pos, ok) ==
    /\ StreamIdle(t)
    /\ IF ok
       THEN /\ stream' = [stream EXCEPT !.i_pos = pos, !.fn = "DataSeek",
                                         !.calls = @ + 1, !.ret = NoResult]
            /\ Call(t, SeekCall(stream.i_file, pos))
       ELSE /\ stream' = [stream EXCEPT !.calls = @ + 1,
                                         !.ret = Outcome("VLC_EGENERIC", 0)]
            /\ UNCHANGED <<pc, op, todo, result, hist>>
    /\ UNCHANGED <<busVars, waitVars, lifeVars, geo, hasMeta, have, prio, rdQueue,
                   errs, ops>>

\* DataSeek: set_piece_priority returned, VLC_SUCCESS is returned (an
\* exception of set_piece_priority leaves DataSeek as it is)
DataSeekReturn(t) ==
    /\ pc[t] = "done"
    /\ stream.fn = "DataSeek"
    /\ stream' = [stream EXCEPT
                     !.fn = "none",
                     !.ret = IF result[t].kind = "void"
                             THEN Outcome("VLC_SUCCESS", 0) ELSE result[t]]
    /\ UNCHANGED <<busVars, waitVars, pc, lifeVars, geo, hasMeta, have, prio,
                   rdQueue, errs, op, todo, result, ops, hist>>

\* DataRead(p_buf, i_size): at or past the end of the file 0 is returned,
\* otherwise the loop is entered
DataRead(t, size) ==
    /\ StreamIdle(t)
    /\ IF stream.i_pos >= FileSize(geo, stream.i_file)
       THEN /\ stream' = [stream EXCEPT !.calls = @ + 1, !.ret = Outcome("bytes", 0)]
            /\ UNCHANGED pc
       ELSE /\ stream' = [stream EXCEPT !.fn = "DataRead", !.size = size,
                                         !.tries = 0, !.calls = @ + 1,
                                         !.ret = NoResult]
            /\ pc' = [pc EXCEPT ![t] = "dr_loop"]
    /\ UNCHANGED <<busVars, waitVars, lifeVars, geo, hasMeta, have, prio, rdQueue,
                   errs, op, todo, result, ops, hist>>

\* DataRead loop: while paused it sleeps 50 ms and looks again; otherwise
\* it calls read(i_file, i_pos, p_buf, i_size).  (The status text it
\* publishes every 0.5 s touches nothing modelled here.)
DataReadTry(t) ==
    /\ pc[t] = "dr_loop"
    /\ ~stream.paused
    /\ Call(t, ReadOp(stream.i_file, stream.i_pos, stream.size))
    /\ UNCHANGED <<busVars, waitVars, lifeVars, geo, stream, hasMeta, have, prio,
                   rdQueue, errs, ops>>

\* variant: a DataRead that takes no exception for an interrupt
Interrupted_never(r) == FALSE

\* DataRead: strstr(e.what(), "vlc interrupted") != nullptr
Interrupted(r) == r.kind = "Canceled"

\* DataRead: read threw "vlc interrupted": sleep 50 ms, continue
DataReadRetry(t) ==
    /\ pc[t] = "done"
    /\ stream.fn = "DataRead"
    /\ Interrupted(result[t])
    /\ stream.tries < MaxRetries
    /\ stream' = [stream EXCEPT !.tries = @ + 1]
    /\ pc' = [pc EXCEPT ![t] = "dr_loop"]
    /\ UNCHANGED <<busVars, waitVars, lifeVars, geo, hasMeta, have, prio, rdQueue,
                   errs, op, todo, result, ops, hist>>

\* variant: a cursor moved by whatever DataRead returns
Advance_always(pos, ret) == pos + ret

\* DataRead: if (ret > 0) s->i_pos += ret
Advance(pos, ret) == IF ret > 0 THEN pos + ret ELSE pos

\* DataRead: read returned ret (i_pos += ret when ret > 0; return ret), or
\* threw another error (return -1)
DataReadReturn(t) ==
    /\ pc[t] = "done"
    /\ stream.fn = "DataRead"
    /\ ~Interrupted(result[t])
    /\ LET ret == IF result[t].kind = "bytes"
                  THEN result[t] ELSE Outcome("error", -1) IN
       stream' = [stream EXCEPT
                     !.fn = "none",
                     !.i_pos = Advance(@, ret.n),
                     !.ret = ret]
    /\ UNCHANGED <<busVars, waitVars, pc, lifeVars, geo, hasMeta, have, prio,
                   rdQueue, errs, op, todo, result, ops, hist>>

\* DataControl(STREAM_SET_PAUSE_STATE, b): s->paused = b
SetPauseState(b) ==
    /\ stream.paused # b
    /\ stream' = [stream EXCEPT !.paused = b]
    /\ UNCHANGED <<busVars, waitVars, pc, lifeVars, geo, hasMeta, have, prio,
                   rdQueue, errs, op, todo, result, ops, hist>>

\* one stream on a Download made from a torrent file (DataOpen): the
\* metadata is known; its thread seeks and reads
SeekTargets(g) == {0, g.plen - 1, FileSize(g, 0)}

InitData == InitShared({Reader}, {TRUE})

NextData ==
    \/ \E pos \in SeekTargets(geo) : \E ok \in BOOLEAN : DataSeek(Reader, pos, ok)
    \/ DataSeekReturn(Reader)
    \/ DataRead(Reader, 2)
    \/ DataReadTry(Reader)
    \/ DataReadRetry(Reader)
    \/ DataReadReturn(Reader)
    \/ \E b \in BOOLEAN : SetPauseState(b)
    \/ SpGet(Reader)
    \/ SpSet(Reader)
    \/ HaveCheck(Reader)
    \/ PieceSubscribe(Reader)
    \/ PieceTick(Reader)
    \/ PieceTimeout(Reader)
    \/ PieceReady(Reader)
    \/ PieceUnsub(Reader)
    \/ ReadSubscribe(Reader)
    \/ ReadRequest(Reader)
    \/ ReadWake(Reader)
    \/ ReadUnsub(Reader)
    \/ HostInterrupt(Reader)
    \/ \E p \in Pieces(geo) : EnginePieceFinished(p)
    \/ \E err \in BOOLEAN : EngineReadPiece(err)
    \/ BusPop
    \/ BusDeliver
    \/ BusDone

SpecData == InitData /\ [][NextData]_vars

\* the pieces a seek to pos is to raise: those holding a byte of
\* [pos, pos + 50 MiB) cut to the end of the file
SeekBand(g, f, pos) ==
    Covering(g, f, pos, Min(SEEK_WINDOW, FileSize(g, f) - pos))

\* the first callback of the stream was a DataSeek and it is over
FirstSeekOver ==
    /\ stream.calls = 1 /\ stream.fn = "none"
    /\ op[Reader].name = "setprio" /\ pc[Reader] = "done"

\* C26: after a seek that succeeded the cursor is at the position asked for
\* and every piece of [p, p + 50 MiB), cut to the file, that is not owned is
\* at the highest tier, while every other piece is as it was; after a seek
\* whose source seek failed an error is returned and cursor and priorities
\* are as they were.
C26_SeekRaisesWindow ==
    /\ (FirstSeekOver /\ stream.ret = Outcome("VLC_SUCCESS", 0))
        => /\ stream.i_pos = op[Reader].off
           /\ \A p \in SeekBand(geo, stream.i_file, stream.i_pos) :
                  ~have[p] => prio[p] = PRIO_HIGHEST
           /\ \A p \in Pieces(geo) \ SeekBand(geo, stream.i_file, stream.i_pos) :
                  prio[p] = PRIO_NORMAL
    /\ (stream.calls = 1 /\ stream.ret = Outcome("VLC_EGENERIC", 0))
        => /\ stream.i_pos = 0
           /\ \A p \in Pieces(geo) : prio[p] = PRIO_NORMAL

\* the read DataRead called has ended, and DataRead has not yet looked at
\* how
ReadEnded == stream.fn = "DataRead" /\ pc[Reader] = "done"

\* C27: when the read called by DataRead ended with Canceled, DataRead
\* returns nothing for it (neither 0 nor -1) and leaves the cursor where it
\* was: it goes round its loop and reads again; DataRead moves the cursor
\* only when it returns, and it returns only the byte count of a read that
\* returned one, or -1 for a read that ended with another error.
C27_CanceledReadRetried ==
    [][/\ (ReadEnded /\ result[Reader].kind = "Canceled")
            => /\ stream'.fn = "DataRead"
               /\ stream'.i_pos = stream.i_pos
               /\ stream'.ret = NoResult
               /\ pc'[Reader] \in {"done", "dr_loop"}
       /\ (stream.fn = "DataRead" /\ stream'.fn = "DataRead")
            => stream'.i_pos = stream.i_pos
       /\ (stream.fn = "DataRead" /\ stream'.fn # "DataRead")
            => /\ ReadEnded /\ result[Reader].kind # "Canceled"
               /\ stream'.ret = IF result[Reader].kind = "bytes"
                                THEN result[Reader] ELSE Outcome("error", -1)
               /\ stream'.i_pos = stream.i_pos + Max(0, stream'.ret.n)]_vars

\* C27 witness: a DataRead whose read was canceled read again and returned
\* the bytes of the retry
C27_RetryReturnedBytes ==
    /\ stream.fn = "none" /\ stream.tries > 0
    /\ stream.ret.kind = "bytes" /\ stream.ret.n > 0
    /\ stream.i_pos >= stream.ret.n

\* a step in which the constructor entered by t threw
CtorFailed(t) ==
    /\ pc[t] = "ctor_lock"
    /\ dl'[cur[t]].state = "failed"
\* the instances whose constructor threw
FailedIds == {i \in Ids : dl[i].state = "failed"}

\* C28: when the constructor throws because the torrent could not be
\* added, get_download passes the exception on: the caller holds no
\* instance, the map refers to no instance of the key that is alive, the
\* per-key mutex and the map mutex are free; the instance that failed is
\* never handed out or referred to afterwards, and a get_download that finds
\* no live instance of the key enters the constructor again.
C28_FailedConstructionLeavesNothing ==
    [][\A t \in Threads :
        /\ CtorFailed(t) =>
              LET k == dl[cur[t]].key IN
              /\ holds'[t] = 0 /\ cur'[t] = 0 /\ pc'[t] = "idle"
              /\ dls'[k] = dls[k] /\ dls'[k] # cur[t]
              /\ (dls'[k] = 0 \/ dl'[dls'[k]].refs = 0)
              /\ dls_mtx'[k] = 0
              /\ mtx' = NoThread
        /\ \A i \in FailedIds :
              /\ dl'[i] = dl[i] /\ dl[i].refs = 0
              /\ \A u \in Threads : holds'[u] # i /\ cur'[u] # i
              /\ \A k \in Keys : dls'[k] # i /\ dls_mtx'[k] # i
        /\ (pc[t] = "idle" /\ pc'[t] # "idle" /\ holds'[t] = 0)
              => /\ pc'[t] = "ctor_lock"
                 /\ dl'[cur'[t]].state = "ctor"
                 /\ cur'[t] \notin FailedIds]_vars

\* C28 witness: after a constructor for a key threw, a later get_download
\* for the same key has entered the constructor again
C28_ConstructionAttemptedAgain ==
    \E i \in FailedIds : \E j \in Ids :
        /\ j > i /\ dl[j].key = dl[i].key /\ dl[j].state = "ctor"
        /\ mtx # NoThread

----------------------------------------------------------------------------
(* Session::~Session *)

\* ~Session: m_quit = true
SessionQuit ==
    /\ sess.dtor = "none"
    /\ sess' = [sess EXCEPT !.m_quit = TRUE, !.dtor = "abort"]
    /\ UNCHANGED <<listeners, alerts, batch, busPc, posted, seen, waitVars, pc,
                   lifeVars, readVars>>

\* ~Session: m_session->abort()
SessionAbort ==
    /\ sess.dtor = "abort"
    /\ sess' = [sess EXCEPT !.dtor = "join"]
    /\ UNCHANGED <<listeners, alerts, batch, busPc, posted, seen, waitVars, pc,
                   lifeVars, readVars>>

\* ~Session: m_session_thread.join() returns once session_thread returned
SessionJoin ==
    /\ sess.dtor = "join"
    /\ busPc = "exited"
    /\ sess' = [sess EXCEPT !.dtor = "joined"]
    /\ UNCHANGED <<listeners, alerts, batch, busPc, posted, seen, waitVars, pc,
                   lifeVars, readVars>>

\* the Session with the status listener coming and going and the engine
\* posting alerts, torn down at some point.  The alert thread and the
\* thread in ~Session keep running and wait_for_alert returns within its
\* second: their steps are weakly fair.  The engine and the host owe nothing.
InitTeardown == InitLife

NextTeardown ==
    \/ StatusOpen
    \/ StatusClose
    \/ \E type \in {"torrent_error", "metadata_failed"} : EngineFailure(type)
    \/ \E type \in Snapshots : EngineSnapshot(type)
    \/ BusPop
    \/ BusDeliver
    \/ BusDone
    \/ BusTimeout
    \/ BusContinue
    \/ SessionQuit
    \/ SessionAbort
    \/ SessionJoin

FairTeardown ==
    /\ WF_vars(BusPop) /\ WF_vars(BusDeliver) /\ WF_vars(BusDone)
    /\ WF_vars(BusTimeout) /\ WF_vars(BusContinue)
    /\ WF_vars(SessionAbort) /\ WF_vars(SessionJoin)

SpecTeardown == InitTeardown /\ [][NextTeardown]_vars /\ FairTeardown

\* C29: once ~Session has set m_quit and called abort, at most one more
\* wait_for_alert returns before session_thread leaves its loop, the join
\* returns, and after the join has returned no listener is called and the
\* alert thread does nothing.
C29_TeardownJoins ==
    /\ [](sess.waits <= 1)
    /\ [](sess.dtor = "joined" => busPc = "exited")
    /\ [][sess.dtor = "joined" =>
            /\ seen' = seen /\ promise' = promise
            /\ batch' = batch /\ busPc' = busPc]_vars
    /\ (sess.m_quit ~> sess.dtor = "joined")

\* C29 witness: the join returned after the alert thread, with m_quit set,
\* had come back from one more wait and handed its alert to the status
\* listener
C29_JoinedAfterOneWait ==
    /\ sess.dtor = "joined" /\ sess.waits = 1
    /\ seen # NoAlert

\* a step in which the alert thread called handle_alert of the registered
\* listeners
Invoked == busPc = "dispatch" /\ batch # <<>> /\ batch' # batch /\ listeners # <<>>

\* C30: the alert thread calls handle_alert only after it has released the
\* mutex of the listener registry: no listener runs while m_listeners_mtx is
\* held by the alert thread.
C30_DispatchOutsideLock == [][Invoked => ListenersLockFree]_vars

\* C31: the alert thread calls handle_alert only on listeners that are
\* registered at that moment, and the registry does not change while the
\* alert thread is inside its dispatch: once unregister_alert_listener(l)
\* has returned, no alert reaches l and the alert thread is not inside
\* l's handle_alert, so the promise of an ended wait is never touched.
C31_NoDeliveryAfterUnregister ==
    [][/\ busPc = "dispatch" => listeners' = listeners
       /\ Delivered =>
            /\ \A t \in Threads \ Range(listeners) : promise'[t] = promise[t]
            /\ StatusListener \notin Range(listeners) => seen' = seen
       /\ \A t \in Threads :
            (t \in Range(listeners) /\ t \notin Range(listeners'))
                => /\ busPc # "dispatch"
                   /\ promise'[t] = NoPromise]_vars

\* C31 witness: the reader's metadata wait is over and its listener is
\* unregistered while the alert thread dispatches a batch to the status
\* listener
C31_DispatchAfterUnregister ==
    /\ pc[Reader] = "done" /\ hist[Reader].subscribed
    /\ Reader \notin Range(listeners)
    /\ busPc = "dispatch" /\ batch # <<>>
    /\ StatusListener \in Range(listeners)

\* the piece_finished alert of piece p is still on its way to the listeners
FinishPending(p) ==
    \E i \in 1..Len(alerts \o batch) :
        LET a == (alerts \o batch)[i] IN a.type = "piece_finished" /\ a.piece = p

\* C32: a read's piece wait times out only when its piece has not completed
\* (or its piece_finished alert has not been dispatched yet): a piece that
\* completed after the read's have_piece test, before or after the listener
\* was registered, lets the read go on to the bytes.
C32_NoLostPieceWakeup ==
    [][(pc[Reader] = "pw_wait" /\ pc'[Reader] = "pw_unsub"
            /\ result'[Reader] = TimeoutError)
        => (~have[PartOf(Reader).piece] \/ FinishPending(PartOf(Reader).piece))]_vars

\* the metadata_received alert is still on its way to the listeners
MetadataPending ==
    \E i \in 1..Len(alerts \o batch) : (alerts \o batch)[i].type = "metadata_received"

\* C33: a caller that waits for the metadata with its promise unresolved is
\* waiting for metadata the torrent does not have yet, or whose alert is yet
\* to be dispatched: a metadata_received alert dispatched between the
\* has_metadata test and the registration of the listener does not leave
\* the caller blocked.
C33_NoLostMetadataWakeup ==
    (pc[Reader] = "meta_wait" /\ promise[Reader].state = "pending")
        => (~hasMeta \/ MetadataPending)

----------------------------------------------------------------------------
(* A reader on one Download while another thread opens and closes a
   Download of a second torrent *)
Closer == "t2"
OtherKey == "k2"

InitAnswer == InitShared({Reader}, {TRUE}) /\ geo = SmallTorrent

NextAnswer ==
    \/ Start(Reader, ReadOp(0, 0, 2))
    \/ SpGet(Reader)
    \/ SpSet(Reader)
    \/ HaveCheck(Reader)
    \/ PieceSubscribe(Reader)
    \/ PieceTick(Reader)
    \/ PieceTimeout(Reader)
    \/ PieceReady(Reader)
    \/ PieceUnsub(Reader)
    \/ ReadSubscribe(Reader)
    \/ ReadRequest(Reader)
    \/ ReadWake(Reader)
    \/ ReadUnsub(Reader)
    \/ \E t \in {Reader, Closer} : HostInterrupt(t)
    \/ \E p \in Pieces(geo) : EnginePieceFinished(p)
    \/ \E err \in BOOLEAN : EngineReadPiece(err)
    \/ \E keep \in BOOLEAN : GetDownload(Closer, OtherKey, keep)
    \/ \E ok \in BOOLEAN : Construct(Closer, ok)
    \/ Release(Closer)
    \/ DtorSubscribe(Closer)
    \/ DtorRemove(Closer)
    \/ DtorTick(Closer)
    \/ DtorWake(Closer)
    \/ DtorUnsub(Closer)
    \/ DtorUnlock(Closer)
    \/ EngineRemoved(OtherKey)
    \/ BusPop
    \/ BusDeliver
    \/ BusDone

SpecAnswer == InitAnswer /\ [][NextAnswer]_vars

\* the alert is the engine's answer to the request thread t waits for
AnswerFor(a, t) ==
    \/ /\ pc[t] = "rp_wait" /\ a.type = "read_piece"
       /\ a.key = TheKey /\ a.piece = PartOf(t).piece
    \/ /\ pc[t] = "dtor_wait" /\ a.type = "torrent_removed"
       /\ a.key = dl[cur[t]].key

\* C34: read_piece and remove_torrent are sent with the requester's
\* listener already registered, the engine posts an answer only for a
\* request it was sent, and an answer dispatched while the requester waits
\* reaches the requester's promise and resolves it.
C34_AnswerObserved ==
    [][/\ \A t \in Threads :
            (\/ pc[t] = "rp_req" /\ pc'[t] = "rp_wait"
             \/ pc[t] = "dtor_remove" /\ pc'[t] = "dtor_wait")
            => t \in Range(listeners) /\ promise[t].state # "none"
       /\ \A t \in Threads :
            (Delivered /\ AnswerFor(Head(batch), t))
            => /\ t \in Range(listeners)
               /\ promise'[t].state # "pending"
       /\ (Len(alerts') > Len(alerts) /\ alerts'[Len(alerts')].type = "read_piece")
            => rdQueue # <<>> /\ rdQueue' = Tail(rdQueue)
       /\ (Len(alerts') > Len(alerts) /\ alerts'[Len(alerts')].type = "torrent_removed")
            => rmPending[alerts'[Len(alerts')].key] > 0]_vars

\* C34 witness: the reader's read_piece was answered with the bytes while a
\* destructor's removal was answered too
C34_BothAnswered ==
    /\ pc[Reader] = "rp_wait" /\ promise[Reader].state = "value"
    /\ pc[Closer] = "dtor_wait" /\ promise[Closer].state = "value"

\* C35: a read of a valid file at an offset inside it, asking for more than
\* zero bytes (maxLen = hi * 2^32 + len), never returns the count 0: it
\* returns a positive count or ends with an error.
C35_ZeroOnlyAtEof ==
    (/\ InsideFile(Reader)
     /\ op[Reader].hi > 0 \/ op[Reader].len > 0
     /\ pc[Reader] = "done" /\ result[Reader].kind = "bytes")
        => result[Reader].n > 0

\* the four byte ranges a read of o hands to the map_file of
\* set_piece_priority, after its clamps: exact, head, tail, read-ahead
RaisedWindows(g, o) ==
    LET f == o.file
        w(off, size) == [start |-> ClampOff(g, f, off), length |-> ClampSize(g, f, off, size)]
    IN  {w(o.off, ReadPart(g, f, o.off, ClampedBufLen(o)).length),
         w(0, P01(g, f)),
         w(FileSize(g, f) - P01(g, f), P01(g, f)),
         w(o.off, P5(g, f))}
InPriorityLoops(t) == op[t].name = "read" /\ pc[t] \in {"sp_get", "sp_set"}

\* C36: while a read raises priorities, each of its four windows starts in
\* [0, fileSize] and is no longer than fileSize - start, and a priority the
\* read writes is that of a piece holding a byte of the requested file.
C36_WindowsInsideFile ==
    [][InPriorityLoops(Reader) =>
        /\ \A w \in RaisedWindows(geo, op[Reader]) :
              /\ 0 <= w.start /\ w.start <= FileSize(geo, op[Reader].file)
              /\ 0 <= w.length /\ w.length <= FileSize(geo, op[Reader].file) - w.start
        /\ \A p \in Pieces(geo) :
              prio'[p] # prio[p]
                 => p \in Covering(geo, op[Reader].file, 0, FileSize(geo, op[Reader].file))]_vars

\* the stream's thread enters DataRead in this step
DataReadEntered ==
    /\ stream.fn = "none" /\ stream'.calls = stream.calls + 1
    /\ stream'.fn # "DataSeek" /\ stream'.ret.kind # "VLC_EGENERIC"
\* DataRead returns in this step from its loop
DataReadLeft == stream.fn = "DataRead" /\ stream'.fn = "none"

\* C37: a DataRead that returns a positive count has moved the cursor by
\* exactly that count, one that returns 0 or -1 has left it where it was; a
\* DataRead entered with the cursor at or past the file size returns 0 at
\* once and calls nothing of the Download's read; a read that ended with an
\* error other than Canceled makes DataRead return -1.
C37_CursorFollowsCount ==
    [][/\ DataReadLeft =>
            /\ stream'.ret.kind \in {"bytes", "error"}
            /\ stream'.ret.n > 0 => stream'.i_pos = stream.i_pos + stream'.ret.n
            /\ stream'.ret.n <= 0 => stream'.i_pos = stream.i_pos
            /\ result[Reader].kind \notin {"bytes", "Canceled"}
                  => stream'.ret = Outcome("error", -1)
            /\ result[Reader].kind = "bytes" => stream'.ret = result[Reader]
       /\ (DataReadEntered /\ stream.i_pos >= FileSize(geo, stream.i_file)) =>
            /\ stream'.ret = Outcome("bytes", 0) /\ stream'.fn = "none"
            /\ stream'.i_pos = stream.i_pos
            /\ UNCHANGED <<pc, op, todo, result, prio, listeners, promise, rdQueue>>
       /\ (DataReadEntered /\ stream.i_pos < FileSize(geo, stream.i_file)) =>
            stream'.fn = "DataRead" /\ stream'.i_pos = stream.i_pos]_vars

\* C37 witness: after a seek into the file a DataRead returned -1 for a read
\* that timed out, the cursor still where the seek put it
C37_ErrorLeftCursor ==
    /\ stream.fn = "none" /\ stream.ret = Outcome("error", -1)
    /\ op[Reader].name = "read" /\ result[Reader] = TimeoutError
    /\ stream.i_pos > 0 /\ stream.i_pos = op[Reader].off

----------------------------------------------------------------------------
(* Resolutions of one magnet link one after the other, the fetch of the
   first of which may fail *)
InitMiss ==
    /\ InitBus
    /\ mtx = NoThread
    /\ dls = [k \in Keys |-> 0]
    /\ dls_mtx = [k \in Keys |-> 0]
    /\ dl = [i \in Ids |-> NewInst]
    /\ cur = [t \in Threads |-> 0]
    /\ holds = [t \in Threads |-> 0]
    /\ rmPending = [k \in Keys |-> 0]
    /\ cache \in {"absent", "partial"}
    /\ InitNoRead
    /\ pc = [t \in Threads |-> "idle"]

NextMiss ==
    \/ \E cb \in BOOLEAN : ResolveStart(FirstCaller, cb, <<>>)
    \/ \E cb \in BOOLEAN : pc[FirstCaller] = "done" /\ ResolveStart(SecondCaller, cb, <<>>)
    \/ \E t \in {FirstCaller, SecondCaller} : ResolveProbe(t)
    \/ \E t \in {FirstCaller, SecondCaller} : GetDownload(t, TheKey, TRUE)
    \/ \E t \in {FirstCaller, SecondCaller}, ok \in BOOLEAN : Construct(t, ok)
    \/ \E t \in {FirstCaller, SecondCaller} : ResolveMeta(t)
    \/ \E t \in {FirstCaller, SecondCaller} : MetaSubscribe(t)
    \/ \E t \in {FirstCaller, SecondCaller} : MetaHook(t)
    \/ \E t \in {FirstCaller, SecondCaller} : MetaWake(t)
    \/ \E t \in {FirstCaller, SecondCaller} : MetaUnsub(t)
    \/ \E t \in {FirstCaller, SecondCaller} : Release(t)
    \/ \E t \in {FirstCaller, SecondCaller} : DtorSubscribe(t)
    \/ \E t \in {FirstCaller, SecondCaller} : DtorRemove(t)
    \/ \E t \in {FirstCaller, SecondCaller} : DtorTick(t)
    \/ \E t \in {FirstCaller, SecondCaller} : DtorWake(t)
    \/ \E t \in {FirstCaller, SecondCaller} : DtorUnsub(t)
    \/ \E t \in {FirstCaller, SecondCaller} : DtorUnlock(t)
    \/ \E t \in {FirstCaller, SecondCaller} : ResolveTruncate(t)
    \/ \E t \in {FirstCaller, SecondCaller} : ResolveWrite(t)
    \/ HostInterrupt(FirstCaller)
    \/ (\E i \in Ids : dl[i].state = "live") /\ EngineMetadata
    \/ \E type \in {"torrent_error", "metadata_failed"} :
           (\E i \in Ids : dl[i].state = "live") /\ EngineFailure(type)
    \/ EngineRemoved(TheKey)
    \/ BusPop
    \/ BusDeliver
    \/ BusDone

SpecMiss == InitMiss /\ [][NextMiss]_vars

\* the resolution of t missed the cache and its fetch ended with an error
FailedMiss(t) ==
    /\ InResolve(t) /\ hist[t].missed
    /\ result[t].kind \notin {"none", "descriptor"}

\* C38: a resolution that missed the cache and whose fetch ended with an
\* error (failure alert, host interrupt, constructor) never reaches the
\* statements that open and write the cache file, ends with that error and
\* the file as its probe found it, and the probe of the resolution that
\* follows misses again.
C38_FailedFetchWritesNothing ==
    [][/\ \A t \in {FirstCaller, SecondCaller} :
            FailedMiss(t)' =>
               /\ pc'[t] \notin {"rs_trunc", "rs_write"}
               /\ result'[t].kind \in {"SwarmError", "Canceled", "Failed to add torrent"}
               /\ pc[t] # "done" => cache' = cache
               /\ (pc[t] # "done" /\ pc'[t] = "done")
                     => cache' = hist'[t].saw /\ ~Parseable(cache')
       /\ (/\ FailedMiss(FirstCaller) /\ pc[FirstCaller] = "done"
           /\ pc[SecondCaller] = "rs_probe" /\ pc'[SecondCaller] # "rs_probe")
            => hist'[SecondCaller].missed /\ pc'[SecondCaller] = "rs_get"]_vars

\* C38 witness: the first resolution was canceled while it waited for the
\* metadata and the second one has missed the cache in its turn
C38_MissedAgain ==
    /\ FailedMiss(FirstCaller) /\ pc[FirstCaller] = "done"
    /\ result[FirstCaller].kind = "Canceled"
    /\ hist[SecondCaller].missed /\ cache = "absent"

\* C39: m_keep of an instance is the flag of the get_download that
\* constructed it and stays as it is from construction to destruction,
\* whatever flag a later get_download that returns the instance passes; and
\* ~Download asks the engine to delete the files exactly when m_keep is
\* false.
C39_KeepFixedAtConstruction ==
    [][\A i \in Ids :
        /\ (dl[i].state \in {"ctor", "live", "dtor"} /\ dl'[i].state \in {"live", "dtor"})
              => dl'[i].keep = dl[i].keep
        /\ (dl[i].asked = "none" /\ dl'[i].asked # "none")
              => /\ dl[i].state = "dtor"
                 /\ rmPending'[dl[i].key] = rmPending[dl[i].key] + 1
                 /\ (dl'[i].asked = "delete_files") <=> ~dl[i].keep
        /\ (dl[i].state = "dtor" /\ dl'[i].state = "gone") => dl[i].asked # "none"]_vars

\* C39 witness: an instance constructed with keep = false was returned to a
\* later get_download that passed keep = true, and its destructor asked the
\* engine to delete the files
C39_DeletedDespiteLaterKeep ==
    \E i \in Ids :
        /\ dl[i].state = "dtor" /\ ~dl[i].keep /\ dl[i].other
        /\ dl[i].asked = "delete_files"

====
